---------------------------- MODULE Spec2Model ----------------------------
(***************************************************************************)
(* Model of the broad phase of gmaf/PlayRho                                *)
(* (src/Box2D/Box2D/Collision/BroadPhase.cpp).                             *)
(*                                                                         *)
(* The broad phase owns a dynamic AABB tree, a move buffer of proxy ids    *)
(* queued for a query and a pair buffer rebuilt by every UpdatePairs.      *)
(* DynamicTree and BroadPhase.hpp are not part of the sources at hand:     *)
(* the tree operations, e_nullProxy and BufferGrowthRate follow the        *)
(* specification text.                                                     *)
(*                                                                         *)
(* m_moveBuffer and m_pairBuffer hold the slots 0..count-1 of the C        *)
(* arrays (slot k is element k+1 of the sequence); the slots at and above  *)
(* the count are never read by the code and are not kept.                  *)
(* m_queryProxyId is written by UpdatePairs and read only by the           *)
(* QueryCallback calls of the same UpdatePairs: it is the second argument  *)
(* of QueryCallback here.                                                  *)
(***************************************************************************)
EXTENDS Integers, Sequences, FiniteSets, TLC

(* ------------------------------ bounds -------------------------------- *)

\* The client makes at most MaxCalls calls after constructing the broad phase.
MaxCalls == 4

\* Conf.pairCapacity and Conf.moveCapacity are at most MaxConfCapacity.
MaxConfCapacity == 1

(* ------------------------- geometry (AABB) ---------------------------- *)

AABB(lx, ly, ux, uy) == [lowerBound |-> <<lx, ly>>, upperBound |-> <<ux, uy>>]

\* Two AABBs overlap unless one lies strictly beyond the other on an axis.
TestOverlap(a, b) ==
    /\ b.lowerBound[1] - a.upperBound[1] <= 0
    /\ b.lowerBound[2] - a.upperBound[2] <= 0
    /\ a.lowerBound[1] - b.upperBound[1] <= 0
    /\ a.lowerBound[2] - b.upperBound[2] <= 0

\* a contains b.
Contains(a, b) ==
    /\ a.lowerBound[1] <= b.lowerBound[1]
    /\ a.lowerBound[2] <= b.lowerBound[2]
    /\ b.upperBound[1] <= a.upperBound[1]
    /\ b.upperBound[2] <= a.upperBound[2]

\* The fixed margin by which the tree fattens a tight AABB.
AabbExtension == 1

\* Tight AABB expanded by the margin on every side.
GetFattenedAABB(aabb) ==
    AABB(aabb.lowerBound[1] - AabbExtension, aabb.lowerBound[2] - AabbExtension,
         aabb.upperBound[1] + AabbExtension, aabb.upperBound[2] + AabbExtension)

\* AABB extended by the predicted displacement d, on the side d points to.
GetDisplacedAABB(aabb, d) ==
    AABB(IF d[1] < 0 THEN aabb.lowerBound[1] + d[1] ELSE aabb.lowerBound[1],
         IF d[2] < 0 THEN aabb.lowerBound[2] + d[2] ELSE aabb.lowerBound[2],
         IF d[1] < 0 THEN aabb.upperBound[1] ELSE aabb.upperBound[1] + d[1],
         IF d[2] < 0 THEN aabb.upperBound[2] ELSE aabb.upperBound[2] + d[2])

(* ------------------------------ inputs -------------------------------- *)

\* The node ids the tree hands out as proxy ids.
ProxyIds == {0, 1, 2}

\* Tight AABBs given by the client: two unit boxes on a row. Fattened on
\* creation they do not overlap; the left one re-inserted by MoveProxy with
\* the displacement below reaches the right one.
TightAABBs == {AABB(0, 0, 1, 1), AABB(4, 0, 5, 1)}

\* Displacements given to MoveProxy.
Displacements == {<<1, 0>>}

\* The client's handle for a proxy: the address of the record in which the
\* client keeps the proxy id that CreateProxy returns.
UserData(proxyId) == [fixtureProxy |-> proxyId]

\* The client's pair callbacks: accept every pair, reject every pair, or
\* filter out the pairs of two proxies of the same collision group (the
\* proxies with an even id form one group, those with an odd id the other).
Callbacks == {"acceptAll", "rejectAll", "filter"}

callback(cb, userDataA, userDataB) ==
    CASE cb = "acceptAll" -> TRUE
      [] cb = "rejectAll" -> FALSE
      [] cb = "filter"    -> userDataA.fixtureProxy % 2 # userDataB.fixtureProxy % 2

(* ------------------------------ state --------------------------------- *)

VARIABLES
    m_tree,          \* DynamicTree: leaf id -> [aabb: fat AABB, userData]
    m_proxyCount,
    m_moveBuffer,    \* slots 0..m_moveCount-1 of the move buffer
    m_moveCapacity,
    m_moveCount,
    m_pairBuffer,    \* slots 0..m_pairCount-1 of the pair buffer
    m_pairCapacity,
    m_pairCount,
    nCalls,          \* number of calls the client has made
    aborted,         \* the process was ended by a write outside a buffer
    last             \* the last call made by the client and what it returned

\* A Joint object (src/PlayRho/Dynamics/Joints/Joint.cpp).
VARIABLES
    joint,           \* the Joint: [type: the kind it holds, conf: its fields]
    jointLast        \* the last accessor called on it and how the call ended

bpVars == <<m_tree, m_proxyCount, m_moveBuffer, m_moveCapacity, m_moveCount,
            m_pairBuffer, m_pairCapacity, m_pairCount, nCalls, aborted, last>>

jointVars == <<joint, jointLast>>

\* A World (src/PlayRho/Dynamics/World.hpp).
VARIABLES
    m_bodies,        \* identifiers of the bodies of the world
    m_fixtures,      \* identifiers of the fixtures of the world
    m_joints,        \* identifiers of the joints of the world
    m_flags,         \* [locked, subStepping, stepComplete]
    m_toiCount,      \* contact -> sub-steps taken for it in the current time step
    step,            \* the Step call in progress: its position and its StepConf;
                     \* earlier: a Step call has returned before
    stepLog,         \* what the Step call in progress has done so far, in order
    subSteppingGiven \* the values given to SetSubStepping: none, or the last one

worldVars == <<m_bodies, m_fixtures, m_joints, m_flags, m_toiCount, step, stepLog,
               subSteppingGiven>>

\* The state outside the broad phase, which no BroadPhase method touches.
VARIABLES
    cache,           \* the SimplexCache handed to Distance
    distance         \* the Distance call: its inputs, its simplex, its output;
                     \* previous: the witness points before the last turn

distanceVars == <<cache, distance>>

\* A GrowableStack<T, N> (src/PlayRho/Common/GrowableStack.hpp).
VARIABLES
    stack,           \* the stack: [N, m_array, m_stack, m_count, m_capacity];
                     \* m_stack is [at: the storage pointed to, cells: its slots]
    pushed,          \* the elements pushed and not yet popped, oldest first
    stackLast        \* the last call made on the stack and what it returned

stackVars == <<stack, pushed, stackLast>>

\* The bodies and fixtures of a World (src/PlayRho/Dynamics/World.hpp).
VARIABLES
    body,                 \* BodyID -> [type, awake, velocity, acceleration,
                          \*            massDataDirty]
    fixture,              \* FixtureID -> the body it is attached to
    m_bodiesForProxies,   \* the bodies queued for proxy processing
    m_fixturesForProxies, \* the fixtures queued for proxy processing
    proxies,              \* the fixtures that have proxies in the broad phase
    bodyLast              \* the last call made on the world

bodyVars == <<body, fixture, m_bodiesForProxies, m_fixturesForProxies, proxies, bodyLast>>

\* A Test of the testbed (src/Box2D/Testbed/Framework/Test.cpp).
VARIABLES
    m_world,         \* [bodies: Body* -> its type, joints: Joint* -> [type, bodyA,
                     \*  bodyB, target]]
    m_groundBody,
    m_mouseJoint,
    m_mouseWorld,
    m_bomb,
    m_bombSpawning,
    m_bombSpawnPoint,
    testLast         \* the last handler called and what it met

testVars == <<m_world, m_groundBody, m_mouseJoint, m_mouseWorld, m_bomb,
              m_bombSpawning, m_bombSpawnPoint, testLast>>

\* The objects modelled after the four above.
laterVars == <<stackVars, bodyVars, testVars>>

earlierVars == <<bpVars, jointVars, worldVars, distanceVars>>

outsideBroadPhase == <<jointVars, worldVars, distanceVars, laterVars>>

outsideJoint == <<bpVars, worldVars, distanceVars, laterVars>>

outsideWorld == <<bpVars, jointVars, distanceVars, laterVars>>

outsideDistance == <<bpVars, jointVars, worldVars, laterVars>>

outsideStack == <<earlierVars, bodyVars, testVars>>

outsideBody == <<earlierVars, stackVars, testVars>>

outsideTest == <<earlierVars, stackVars, bodyVars>>

vars == <<earlierVars, laterVars>>

e_nullProxy == -1

BufferGrowthRate == 2

ProxyIdPair(a, b) == [proxyIdA |-> a, proxyIdB |-> b]

Min(a, b) == IF a < b THEN a ELSE b
Max(a, b) == IF a < b THEN b ELSE a

(* --------------------------- DynamicTree ------------------------------ *)

TreeLeaves(tree) == DOMAIN tree

\* DynamicTree::CreateProxy: a new leaf with the fattened AABB.
TreeCreateProxy(tree, proxyId, aabb, userData) ==
    [id \in TreeLeaves(tree) \cup {proxyId} |->
        IF id = proxyId THEN [aabb |-> GetFattenedAABB(aabb), userData |-> userData]
        ELSE tree[id]]

\* DynamicTree::DestroyProxy: the leaf is removed.
TreeDestroyProxy(tree, proxyId) ==
    [id \in TreeLeaves(tree) \ {proxyId} |-> tree[id]]

\* DynamicTree::MoveProxy's result: the tight AABB left the fat AABB.
TreeMoveProxyMoved(tree, proxyId, aabb) == ~Contains(tree[proxyId].aabb, aabb)

\* DynamicTree::MoveProxy's effect: re-insertion with a new fat AABB, only if moved.
TreeMoveProxy(tree, proxyId, aabb, displacement) ==
    IF TreeMoveProxyMoved(tree, proxyId, aabb)
    THEN [tree EXCEPT ![proxyId].aabb =
              GetDisplacedAABB(GetFattenedAABB(aabb), displacement)]
    ELSE tree

GetFatAABB(tree, proxyId) == tree[proxyId].aabb

GetUserData(tree, proxyId) == tree[proxyId].userData

\* DynamicTree::Query: the leaves whose fat AABB overlaps aabb, in the order
\* the traversal meets them. order is a sequence listing every leaf once.
RECURSIVE TreeQuery(_, _, _)
TreeQuery(tree, order, aabb) ==
    IF order = << >> THEN << >>
    ELSE LET id == Head(order)
             rest == TreeQuery(tree, Tail(order), aabb)
         IN IF TestOverlap(tree[id].aabb, aabb) THEN <<id>> \o rest ELSE rest

\* The orders in which a traversal may meet the leaves of the tree.
TraversalOrders(tree) ==
    {o \in [1 .. Cardinality(TreeLeaves(tree)) -> TreeLeaves(tree)] :
        \A i, j \in DOMAIN o : i # j => o[i] # o[j]}


(* ---------------------------- BroadPhase ------------------------------ *)

\* A buffer of the broad phase: its live slots, its count, its capacity, and
\* whether an entry was written at or beyond the capacity.
Buffer(buffer, count, capacity, overrun) ==
    [buffer |-> buffer, count |-> count, capacity |-> capacity, overrun |-> overrun]

\* buffer[slot] = value, for the C slot index slot (0-based).
Store(buffer, slot, value) ==
    [i \in 1 .. Max(Len(buffer), slot + 1) |-> IF i = slot + 1 THEN value ELSE buffer[i]]

\* BroadPhase::BufferMove on the move buffer mb.
BufferMove(mb, proxyId) ==
    LET capacity == IF mb.count = mb.capacity
                    THEN mb.capacity * BufferGrowthRate
                    ELSE mb.capacity
    IN Buffer(Store(mb.buffer, mb.count, proxyId), mb.count + 1, capacity,
              mb.overrun \/ mb.count >= capacity)

\* Mutation of UnBufferMove: no slot is nulled.
NotUnBuffered(buffer, count, proxyId) == buffer

\* UnBufferMove leaving its loop at the first slot that holds proxyId.
UnBufferMoveFirstOnly(buffer, count, proxyId) ==
    [i \in 1 .. Len(buffer) |->
        IF /\ i <= count
           /\ buffer[i] = proxyId
           /\ \A k \in 1 .. i - 1 : buffer[k] # proxyId
        THEN e_nullProxy ELSE buffer[i]]

\* BroadPhase::UnBufferMove: the move buffer after the loop.
UnBufferMove(buffer, count, proxyId) ==
    [i \in 1 .. Len(buffer) |->
        IF i <= count /\ buffer[i] = proxyId THEN e_nullProxy ELSE buffer[i]]

\* QueryCallback without its test for the queried proxy itself.
NeverSkipped(proxyId, queryProxyId) == FALSE

\* QueryCallback leaving every pair to the query of the pair's lesser proxy.
SkippedUnlessGreater(proxyId, queryProxyId) == proxyId <= queryProxyId

\* The test at the head of QueryCallback: a proxy forms no pair with itself.
IsQueryProxy(proxyId, queryProxyId) == proxyId = queryProxyId

\* The pair as (met leaf, queried proxy), whichever is the lesser.
UnorderedIdPair(proxyId, queryProxyId) == ProxyIdPair(proxyId, queryProxyId)

\* The entry QueryCallback writes: the lesser id first.
OrderedIdPair(proxyId, queryProxyId) ==
    ProxyIdPair(Min(proxyId, queryProxyId), Max(proxyId, queryProxyId))

\* BroadPhase::QueryCallback on the pair buffer pb, for the leaf proxyId met
\* by the query of queryProxyId.
QueryCallback(pb, proxyId, queryProxyId) ==
    IF IsQueryProxy(proxyId, queryProxyId) THEN pb
    ELSE LET capacity == IF pb.capacity = pb.count
                         THEN pb.capacity * BufferGrowthRate
                         ELSE pb.capacity
         IN Buffer(Store(pb.buffer, pb.count, OrderedIdPair(proxyId, queryProxyId)),
                   pb.count + 1, capacity, pb.overrun \/ pb.count >= capacity)

\* DynamicTree::Query calling QueryCallback for the leaves in hits, in order.
RECURSIVE QueryHits(_, _, _)
QueryHits(pb, hits, queryProxyId) ==
    IF Len(hits) = 0 THEN pb
    ELSE QueryHits(QueryCallback(pb, Head(hits), queryProxyId), Tail(hits), queryProxyId)

\* The query loop of UpdatePairs from slot i (0-based) of the move buffer on.
RECURSIVE QueryMoves(_, _, _, _, _, _)
QueryMoves(pb, tree, order, moveBuffer, moveCount, i) ==
    IF i >= moveCount THEN pb
    ELSE LET queryProxyId == moveBuffer[i + 1]
         IN IF queryProxyId = e_nullProxy
            THEN QueryMoves(pb, tree, order, moveBuffer, moveCount, i + 1)
            ELSE QueryMoves(
                     QueryHits(pb, TreeQuery(tree, order, GetFatAABB(tree, queryProxyId)),
                               queryProxyId),
                     tree, order, moveBuffer, moveCount, i + 1)

\* The comparison given to std::sort.
PairLess(p1, p2) ==
    \/ p1.proxyIdA < p2.proxyIdA
    \/ (p1.proxyIdA = p2.proxyIdA /\ p1.proxyIdB < p2.proxyIdB)

\* p put into the sorted sequence s, before the first entry it is less than.
RECURSIVE InsertSorted(_, _)
InsertSorted(s, p) ==
    IF Len(s) = 0 THEN <<p>>
    ELSE IF PairLess(p, Head(s)) THEN <<p>> \o s
    ELSE <<Head(s)>> \o InsertSorted(Tail(s), p)

RECURSIVE SortFrom(_, _)
SortFrom(sorted, rest) ==
    IF Len(rest) = 0 THEN sorted
    ELSE SortFrom(InsertSorted(sorted, Head(rest)), Tail(rest))

\* The pair buffer left as the queries wrote it.
SortPairsOmitted(buffer, count) == buffer

\* std::sort of the slots 0..count-1 of the pair buffer by PairLess.
SortPairs(buffer, count) ==
    SortFrom(<< >>, SubSeq(buffer, 1, count)) \o SubSeq(buffer, count + 1, Len(buffer))

\* No duplicate skipped.
SkipNoDuplicates(buffer, count, primaryPair, i) == i

\* The slot after the duplicates of primaryPair that start at slot i.
RECURSIVE SkipDuplicates(_, _, _, _)
SkipDuplicates(buffer, count, primaryPair, i) ==
    IF i < count /\ buffer[i + 1] = primaryPair
    THEN SkipDuplicates(buffer, count, primaryPair, i + 1)
    ELSE i

\* One invocation of the client's callback, as the client sees it.
Invocation(tree, cb, pair) ==
    LET userDataA == GetUserData(tree, pair.proxyIdA)
        userDataB == GetUserData(tree, pair.proxyIdB)
    IN [userDataA |-> userDataA, userDataB |-> userDataB,
        result |-> callback(cb, userDataA, userDataB)]

\* Every invocation counted, whatever it returned.
CountInvoked(added, result) == added + 1

\* The number of accepted pairs after an invocation that returned result.
CountAdded(added, result) == IF result THEN added + 1 ELSE added

\* The loop of UpdatePairs that sends the pairs to the client, from slot i on:
\* the invocations made so far and the number of accepted pairs.
RECURSIVE SendPairs(_, _, _, _, _, _, _)
SendPairs(buffer, count, tree, cb, i, calls, added) ==
    IF i >= count THEN [calls |-> calls, added |-> added]
    ELSE LET primaryPair == buffer[i + 1]
             inv == Invocation(tree, cb, primaryPair)
         IN SendPairs(buffer, count, tree, cb,
                      SkipDuplicates(buffer, count, primaryPair, i + 1),
                      Append(calls, inv),
                      CountAdded(added, inv.result))

\* The values m_queryProxyId takes in the query loop that are not skipped.
IsProxy(proxyId) == proxyId # e_nullProxy
Queried(moveBuffer, moveCount) == SelectSeq(SubSeq(moveBuffer, 1, moveCount), IsProxy)

\* The pair count left as the previous UpdatePairs set it.
KeepPairCount == m_pairCount

\* m_pairCount = 0 at the start of UpdatePairs.
ResetPairCount == 0

\* m_moveCount = 0 after the queries of UpdatePairs.
ResetMoveCount == 0

\* What a write at or beyond a buffer's capacity does: it lands in memory
\* next to the buffer and the call goes on, or it ends the process.
Outcomes(overrun) == IF overrun THEN {"written", "aborted"} ELSE {"written"}

Abort ==
    /\ aborted' = TRUE
    /\ last' = [op |-> "abort"]
    /\ UNCHANGED <<m_tree, m_proxyCount, m_moveBuffer, m_moveCapacity, m_moveCount,
                   m_pairBuffer, m_pairCapacity, m_pairCount>>

MoveBuffer == Buffer(m_moveBuffer, m_moveCount, m_moveCapacity, FALSE)

SetMoveBuffer(mb) ==
    /\ m_moveBuffer' = mb.buffer
    /\ m_moveCount' = mb.count
    /\ m_moveCapacity' = mb.capacity

\* No GrowableStack has been made.
StackIdle ==
    /\ stack = [N |-> 0]
    /\ pushed = << >>
    /\ stackLast = [op |-> "none"]

\* No body has been made.
BodyIdle ==
    /\ body = << >>
    /\ fixture = << >>
    /\ m_bodiesForProxies = {}
    /\ m_fixturesForProxies = {}
    /\ proxies = {}
    /\ bodyLast = [op |-> "none"]

\* No Test has been made.
TestIdle ==
    /\ m_world = [bodies |-> << >>, joints |-> << >>]
    /\ m_groundBody = 0
    /\ m_mouseJoint = 0
    /\ m_mouseWorld = 0
    /\ m_bomb = 0
    /\ m_bombSpawning = FALSE
    /\ m_bombSpawnPoint = 0
    /\ testLast = [op |-> "none"]

\* None of the later objects has been made.
LaterIdle == StackIdle /\ BodyIdle /\ TestIdle

\* No Joint object has been made.
JointIdle ==
    /\ joint = [type |-> "none"]
    /\ jointLast = [op |-> "none"]

\* No Distance call is made.
DistanceIdle ==
    /\ cache = [indices |-> << >>, metric |-> 0, metricSet |-> FALSE]
    /\ distance = [pc |-> "none"]

\* No World has been made.
WorldIdle ==
    /\ m_bodies = {}
    /\ m_fixtures = {}
    /\ m_joints = {}
    /\ m_flags = [locked |-> FALSE, subStepping |-> FALSE, stepComplete |-> TRUE]
    /\ m_toiCount = << >>
    /\ step = [pc |-> "none"]
    /\ stepLog = << >>
    /\ subSteppingGiven = << >>

(* ------------------------------ actions ------------------------------- *)

\* The configurations given to the constructor.
Confs == {[pairCapacity |-> c, moveCapacity |-> c] : c \in 0 .. MaxConfCapacity}

Init ==
    /\ m_tree = << >>
    /\ m_proxyCount = 0
    /\ m_moveBuffer = << >>
    /\ m_moveCount = 0
    /\ m_pairBuffer = << >>
    /\ m_pairCount = 0
    /\ \E conf \in Confs :
          /\ m_pairCapacity = conf.pairCapacity
          /\ m_moveCapacity = conf.moveCapacity
    /\ nCalls = 0
    /\ aborted = FALSE
    /\ last = [op |-> "BroadPhase"]
    /\ JointIdle
    /\ WorldIdle
    /\ DistanceIdle
    /\ LaterIdle

\* The ids DynamicTree::CreateProxy may return: any node id that is no leaf.
FreeProxyIds == ProxyIds \ TreeLeaves(m_tree)

CreateProxy(proxyId, aabb, userData) ==
    /\ ~aborted
    /\ nCalls < MaxCalls
    /\ nCalls' = nCalls + 1
    /\ UNCHANGED outsideBroadPhase
    /\ proxyId \in FreeProxyIds
    /\ LET mb == BufferMove(MoveBuffer, proxyId)
       IN \E outcome \in Outcomes(mb.overrun) :
            IF outcome = "aborted" THEN Abort
            ELSE /\ m_tree' = TreeCreateProxy(m_tree, proxyId, aabb, userData)
                 /\ m_proxyCount' = m_proxyCount + 1
                 /\ SetMoveBuffer(mb)
                 /\ last' = [op |-> "CreateProxy", proxyId |-> proxyId]
                 /\ UNCHANGED <<m_pairBuffer, m_pairCapacity, m_pairCount, aborted>>

DestroyProxy(proxyId) ==
    /\ ~aborted
    /\ nCalls < MaxCalls
    /\ nCalls' = nCalls + 1
    /\ UNCHANGED outsideBroadPhase
    /\ proxyId \in TreeLeaves(m_tree)
    /\ m_proxyCount > 0
    /\ m_moveBuffer' = UnBufferMove(m_moveBuffer, m_moveCount, proxyId)
    /\ m_proxyCount' = m_proxyCount - 1
    /\ m_tree' = TreeDestroyProxy(m_tree, proxyId)
    /\ last' = [op |-> "DestroyProxy", proxyId |-> proxyId]
    /\ UNCHANGED <<m_moveCapacity, m_moveCount, m_pairBuffer, m_pairCapacity,
                   m_pairCount, aborted>>

\* MoveProxy buffering the proxy whatever the tree answers.
MoveProxyBuffersAlways(moved) == TRUE

\* Whether BroadPhase::MoveProxy calls BufferMove, given the tree's answer.
MoveProxyBuffers(moved) == moved

MoveProxy(proxyId, aabb, displacement) ==
    /\ ~aborted
    /\ nCalls < MaxCalls
    /\ nCalls' = nCalls + 1
    /\ UNCHANGED outsideBroadPhase
    /\ proxyId \in TreeLeaves(m_tree)
    /\ LET moved == TreeMoveProxyMoved(m_tree, proxyId, aabb)
           mb == IF MoveProxyBuffers(moved) THEN BufferMove(MoveBuffer, proxyId)
                 ELSE MoveBuffer
       IN \E outcome \in Outcomes(mb.overrun) :
            IF outcome = "aborted" THEN Abort
            ELSE /\ m_tree' = TreeMoveProxy(m_tree, proxyId, aabb, displacement)
                 /\ SetMoveBuffer(mb)
                 /\ last' = [op |-> "MoveProxy", proxyId |-> proxyId, moved |-> moved]
                 /\ UNCHANGED <<m_proxyCount, m_pairBuffer, m_pairCapacity,
                                m_pairCount, aborted>>

TouchProxy(proxyId) ==
    /\ ~aborted
    /\ nCalls < MaxCalls
    /\ nCalls' = nCalls + 1
    /\ UNCHANGED outsideBroadPhase
    /\ proxyId \in TreeLeaves(m_tree)
    /\ LET mb == BufferMove(MoveBuffer, proxyId)
       IN \E outcome \in Outcomes(mb.overrun) :
            IF outcome = "aborted" THEN Abort
            ELSE /\ SetMoveBuffer(mb)
                 /\ last' = [op |-> "TouchProxy", proxyId |-> proxyId]
                 /\ UNCHANGED <<m_tree, m_proxyCount, m_pairBuffer, m_pairCapacity,
                                m_pairCount, aborted>>

\* UpdatePairs, for the order in which the queries of this call meet the
\* leaves of the tree and for the callback cb the client gives.
UpdatePairs(order) ==
    /\ ~aborted
    /\ nCalls < MaxCalls
    /\ nCalls' = nCalls + 1
    /\ UNCHANGED outsideBroadPhase
    /\ LET pb0 == Buffer(SubSeq(m_pairBuffer, 1, ResetPairCount), ResetPairCount,
                         m_pairCapacity, FALSE)
           pb == QueryMoves(pb0, m_tree, order, m_moveBuffer, m_moveCount, 0)
           sorted == SortPairs(pb.buffer, pb.count)
       IN \E cb \in Callbacks, outcome \in Outcomes(pb.overrun) :
            LET sent == SendPairs(sorted, pb.count, m_tree, cb, 0, << >>, 0)
            IN
            IF outcome = "aborted" THEN Abort
            ELSE /\ m_pairBuffer' = sorted
                 /\ m_pairCount' = pb.count
                 /\ m_pairCapacity' = pb.capacity
                 /\ m_moveCount' = ResetMoveCount
                 /\ m_moveBuffer' = SubSeq(m_moveBuffer, 1, ResetMoveCount)
                 /\ last' = [op |-> "UpdatePairs",
                             queried |-> Queried(m_moveBuffer, m_moveCount),
                             calls |-> sent.calls, added |-> sent.added]
                 /\ UNCHANGED <<m_tree, m_proxyCount, m_moveCapacity, aborted>>

Next ==
    \/ \E proxyId \in ProxyIds, aabb \in TightAABBs :
           CreateProxy(proxyId, aabb, UserData(proxyId))
    \/ \E proxyId \in ProxyIds : DestroyProxy(proxyId)
    \/ \E proxyId \in ProxyIds, aabb \in TightAABBs, displacement \in Displacements :
           MoveProxy(proxyId, aabb, displacement)
    \/ \E proxyId \in ProxyIds : TouchProxy(proxyId)
    \/ \E order \in TraversalOrders(m_tree) : UpdatePairs(order)

Spec == Init /\ [][Next]_vars

(* --------------------------- observations ----------------------------- *)

\* The proxy a client handle stands for.
ProxyOf(userData) == userData.fixtureProxy

\* The pair of proxies an invocation of the callback was made with.
CalledPair(call) == ProxyIdPair(ProxyOf(call.userDataA), ProxyOf(call.userDataB))
CalledSet(call) == {ProxyOf(call.userDataA), ProxyOf(call.userDataB)}

\* The last call was an UpdatePairs that returned.
Updated == last.op = "UpdatePairs"

\* The proxies other than p whose fat AABB overlaps the fat AABB of p.
Overlapping(tree, p) ==
    {q \in TreeLeaves(tree) \ {p} : TestOverlap(tree[p].aabb, tree[q].aabb)}

\* The non-null proxies in the slots 0..count-1 of a move buffer.
Buffered(buffer, count) ==
    {buffer[i] : i \in 1 .. count} \ {e_nullProxy}

(* ------------------------------ claims -------------------------------- *)

\* C1: in one UpdatePairs call that returns, the callback is invoked at most
\* once for each unordered pair of proxies.
C1_PairAtMostOnce ==
    Updated =>
        \A i, j \in DOMAIN last.calls :
            i # j => CalledSet(last.calls[i]) # CalledSet(last.calls[j])

\* A call whose pair buffer held one pair three times (found from both of
\* its proxies, one of them buffered twice) and that invoked the callback.
C1_Witness ==
    /\ Updated
    /\ Len(last.calls) >= 1
    /\ \E i \in 1 .. m_pairCount - 2 :
          m_pairBuffer[i] = m_pairBuffer[i + 1] /\ m_pairBuffer[i] = m_pairBuffer[i + 2]
    /\ \E i, j \in DOMAIN last.queried : i # j /\ last.queried[i] = last.queried[j]

\* C2: every pair passed to the callback is made of two distinct proxies
\* that are both in the tree and whose fat AABBs overlap.
C2_PairsDistinctLiveOverlapping ==
    Updated =>
        \A i \in DOMAIN last.calls :
            LET a == ProxyOf(last.calls[i].userDataA)
                b == ProxyOf(last.calls[i].userDataB)
            IN /\ a # b
               /\ a \in TreeLeaves(m_tree)
               /\ b \in TreeLeaves(m_tree)
               /\ TestOverlap(GetFatAABB(m_tree, a), GetFatAABB(m_tree, b))

\* A call that reported a pair of a queried proxy while another proxy in the
\* tree did not overlap that queried proxy.
C2_Witness ==
    /\ Updated
    /\ Len(last.calls) >= 1
    /\ \E i \in DOMAIN last.queried :
          \E q \in TreeLeaves(m_tree) \ {last.queried[i]} :
              q \notin Overlapping(m_tree, last.queried[i])

\* C3: for every non-null proxy p in the move buffer when UpdatePairs is
\* called and every other proxy q in the tree whose fat AABB overlaps that of
\* p, a call that returns has invoked the callback with the pair {p, q}.
C3_NoOverlapMissed ==
    [][ last'.op = "UpdatePairs" =>
          \A p \in Buffered(m_moveBuffer, m_moveCount) :
              \A q \in Overlapping(m_tree, p) :
                  \E i \in DOMAIN last'.calls : CalledSet(last'.calls[i]) = {p, q} ]_vars

\* A call that queried one proxy only, which overlapped a proxy that was
\* not in the move buffer, and reported that pair.
C3_Witness ==
    /\ Updated
    /\ Len(last.queried) = 1
    /\ Overlapping(m_tree, last.queried[1]) # {}
    /\ Len(last.calls) = 1
    /\ CalledSet(last.calls[1]) \cap Overlapping(m_tree, last.queried[1]) # {}

\* C4: every entry of the pair buffer has proxyIdA < proxyIdB.
C4_PairBufferOrdered ==
    \A i \in 1 .. Len(m_pairBuffer) :
        m_pairBuffer[i].proxyIdA < m_pairBuffer[i].proxyIdB

\* A pair buffer with an entry found from the query of its greater proxy,
\* still there after a later DestroyProxy.
C4_Witness ==
    /\ last.op = "DestroyProxy"
    /\ m_pairCount >= 2
    /\ Len(m_pairBuffer) = m_pairCount

\* The pairs UpdatePairs has to report for a tree and the non-null proxies
\* of a move buffer, each as (lesser id, greater id).
ExpectedPairs(tree, buffered) ==
    UNION {{ProxyIdPair(Min(p, q), Max(p, q)) : q \in Overlapping(tree, p)} : p \in buffered}

\* C5: a call that returns has invoked the callback in strictly ascending
\* lexicographic order of (proxyIdA, proxyIdB), with exactly the pairs due
\* to the set of buffered proxies and the tree: the sequence of invocations
\* does not depend on the order in which the proxies were buffered.
C5_CallbackOrderAscending ==
    [][ last'.op = "UpdatePairs" =>
          /\ \A i, j \in DOMAIN last'.calls :
                i < j => PairLess(CalledPair(last'.calls[i]), CalledPair(last'.calls[j]))
          /\ {CalledPair(last'.calls[i]) : i \in DOMAIN last'.calls}
                = ExpectedPairs(m_tree, Buffered(m_moveBuffer, m_moveCount)) ]_vars

\* A call that queried a greater proxy before a lesser one and reported at
\* least two pairs.
C5_Witness ==
    /\ Updated
    /\ Len(last.calls) >= 2
    /\ \E i, j \in DOMAIN last.queried : i < j /\ last.queried[i] > last.queried[j]

\* The number of invocations in calls that returned true.
Accepted(calls) == Cardinality({i \in DOMAIN calls : calls[i].result})

\* C6: the value UpdatePairs returns is the number of callback invocations
\* of that call that returned true.
C6_ReturnsAcceptedCount ==
    Updated => last.added = Accepted(last.calls)

\* A call in which the callback accepted a pair and rejected another.
C6_Witness ==
    /\ Updated
    /\ \E i, j \in DOMAIN last.calls : last.calls[i].result /\ ~last.calls[j].result
    /\ last.added >= 1

\* C7: a MoveProxy that returns has appended the proxy to the move buffer
\* if and only if the tree re-inserted the proxy (and reported so); when the
\* tree reports no move, the move buffer and its count are unchanged.
C7_MoveProxyBuffersIffMoved ==
    [][ last'.op = "MoveProxy" =>
          /\ last'.moved = (m_tree' # m_tree)
          /\ IF last'.moved
             THEN /\ m_moveCount' = m_moveCount + 1
                  /\ m_moveBuffer' = Append(m_moveBuffer, last'.proxyId)
             ELSE UNCHANGED <<m_moveBuffer, m_moveCount>> ]_vars

\* A MoveProxy for which the tree reported no move, with a non-empty buffer.
C7_Witness ==
    /\ last.op = "MoveProxy"
    /\ ~last.moved
    /\ m_moveCount >= 1

\* C8: the move count never exceeds the move capacity, the pair count never
\* exceeds the pair capacity, and buffering never fails.
C8_CountsWithinCapacity ==
    /\ ~aborted
    /\ m_moveCount <= m_moveCapacity
    /\ m_pairCount <= m_pairCapacity

\* C9: a DestroyProxy of proxyId replaces every move-buffer slot holding
\* proxyId by the null sentinel and changes nothing else in the move buffer:
\* the count and every other slot are unchanged.
C9_DestroyTombstones ==
    [][ last'.op = "DestroyProxy" =>
          /\ m_moveCount' = m_moveCount
          /\ Len(m_moveBuffer') = Len(m_moveBuffer)
          /\ \A i \in 1 .. Len(m_moveBuffer) :
                m_moveBuffer'[i] = IF m_moveBuffer[i] = last'.proxyId
                                   THEN e_nullProxy
                                   ELSE m_moveBuffer[i] ]_vars

\* A DestroyProxy that left two null slots around the slot of another proxy.
C9_Witness ==
    /\ last.op = "DestroyProxy"
    /\ m_moveCount = 3
    /\ m_moveBuffer[1] = e_nullProxy
    /\ m_moveBuffer[2] # e_nullProxy
    /\ m_moveBuffer[3] = e_nullProxy

\* The number of entries the queries of UpdatePairs append to the pair
\* buffer: one for each slot of a non-null proxy and each proxy overlapping it.
RECURSIVE QueryEntries(_, _, _)
QueryEntries(tree, moveBuffer, i) ==
    IF i = 0 THEN 0
    ELSE QueryEntries(tree, moveBuffer, i - 1)
           + (IF moveBuffer[i] = e_nullProxy THEN 0
              ELSE Cardinality(Overlapping(tree, moveBuffer[i])))

\* C10: an UpdatePairs that returns leaves in the pair buffer the entries
\* of its own queries only and leaves the move count 0; it decreases neither
\* capacity; an UpdatePairs right after an UpdatePairs reports no pair.
C10_BuffersReset ==
    [][ last'.op = "UpdatePairs" =>
          /\ m_pairCount' = QueryEntries(m_tree, m_moveBuffer, m_moveCount)
          /\ Len(m_pairBuffer') = m_pairCount'
          /\ m_moveCount' = 0
          /\ m_pairCapacity' >= m_pairCapacity
          /\ m_moveCapacity' >= m_moveCapacity
          /\ (last.op = "UpdatePairs" => last'.calls = << >> /\ m_pairCount' = 0) ]_vars

\* An UpdatePairs that followed an UpdatePairs which had reported a pair:
\* two overlapping proxies are in the tree and neither was queried.
C10_Witness ==
    /\ Updated
    /\ last.queried = << >>
    /\ last.calls = << >>
    /\ m_pairCount = 0
    /\ m_moveCount = 0
    /\ m_pairCapacity >= 2
    /\ \E p \in TreeLeaves(m_tree) : Overlapping(m_tree, p) # {}

\* The change of the proxy count a call makes.
CountChange(op) ==
    CASE op = "CreateProxy"  -> 1
      [] op = "DestroyProxy" -> -1
      [] OTHER               -> 0

\* C27: a proxy that DestroyProxy removed and that no later CreateProxy made
\* again is in no slot of the move buffer, is not queried by UpdatePairs and
\* is in no pair UpdatePairs reports; the proxy count is the number of
\* proxies in the tree, and CreateProxy adds one to it, DestroyProxy takes
\* one from it and every other call leaves it.
C27_DestroyedNeverQueried ==
    /\ [](/\ Buffered(m_moveBuffer, m_moveCount) \subseteq TreeLeaves(m_tree)
          /\ m_proxyCount = Cardinality(TreeLeaves(m_tree))
          /\ last.op = "DestroyProxy" => last.proxyId \notin TreeLeaves(m_tree)
          /\ Updated =>
                /\ \A i \in DOMAIN last.queried : last.queried[i] \in TreeLeaves(m_tree)
                /\ \A i \in DOMAIN last.calls :
                      CalledSet(last.calls[i]) \subseteq TreeLeaves(m_tree))
    /\ [][ nCalls' = nCalls + 1 /\ ~aborted' =>
              m_proxyCount' = m_proxyCount + CountChange(last'.op) ]_vars

\* DestroyProxy removed the only proxy, which was in two slots of the move
\* buffer: by its CreateProxy and by a later TouchProxy or MoveProxy.
C27_Witness ==
    /\ last.op = "DestroyProxy"
    /\ m_moveCount = 2
    /\ m_moveBuffer = <<e_nullProxy, e_nullProxy>>
    /\ m_tree = << >>
    /\ m_proxyCount = 0

TypeOK ==
    /\ m_proxyCount \in 0 .. Cardinality(ProxyIds)
    /\ m_moveCount \in 0 .. MaxCalls
    /\ Len(m_moveBuffer) = m_moveCount

(* ====================================================================== *)
(* Joint accessors (src/PlayRho/Dynamics/Joints/Joint.cpp)                *)
(*                                                                        *)
(* A Joint holds a value of one joint configuration kind, or nothing.     *)
(* Every accessor reads GetType(object), compares it with the kinds it    *)
(* supports one after the other, and throws std::invalid_argument when    *)
(* none of them matched.                                                  *)
(* ====================================================================== *)

\* The kinds a Joint may hold. "empty" is a Joint holding no value; Rope is
\* a kind that Joint.cpp includes no header of.
JointTypes == {"empty", "Distance", "Friction", "Gear", "Motor", "Pulley",
               "Prismatic", "Revolute", "Rope", "Target", "Weld", "Wheel"}

\* Scalar, vector and flag arguments given to the setters.
Scalars == {0, 1}
Vectors == {<<0, 0>>, <<1, 2>>}

\* The fields of each kind that the accessors of Joint.cpp reach.
ScalarFields(type) ==
    CASE type = "Revolute"  -> {"referenceAngle", "motorSpeed", "angularMass",
                                "maxMotorTorque", "angularMotorImpulse",
                                "lowerAngle", "upperAngle"}
      [] type = "Prismatic" -> {"referenceAngle", "motorSpeed", "linearMotorImpulse"}
      [] type = "Weld"      -> {"referenceAngle", "frequency"}
      [] type = "Wheel"     -> {"motorSpeed", "angularMass", "maxMotorTorque",
                                "frequency", "angularReaction"}
      [] type = "Friction"  -> {"angularMass"}
      [] type = "Motor"     -> {"angularMass", "angularOffset"}
      [] type = "Gear"      -> {"ratio"}
      [] type = "Pulley"    -> {"ratio"}
      [] type = "Distance"  -> {"frequency"}
      [] type = "Target"    -> {"frequency"}
      [] OTHER              -> {}

VectorFields(type) ==
    CASE type = "Prismatic" -> {"localXAxisA", "localYAxisA"}
      [] type = "Wheel"     -> {"localXAxisA", "localYAxisA"}
      [] type = "Motor"     -> {"linearOffset"}
      [] type = "Pulley"    -> {"groundAnchorA", "groundAnchorB"}
      [] type = "Target"    -> {"target"}
      [] OTHER              -> {}

FlagFields(type) ==
    CASE type = "Revolute"  -> {"enableLimit", "enableMotor"}
      [] type = "Prismatic" -> {"enableLimit", "enableMotor"}
      [] type = "Wheel"     -> {"enableMotor"}
      [] OTHER              -> {}

\* A Joint constructed from a default configuration of the kind.
DefaultJoint(type) ==
    [type |-> type,
     conf |-> [f \in ScalarFields(type) \cup VectorFields(type) \cup FlagFields(type) |->
                 IF f \in ScalarFields(type) THEN 0
                 ELSE IF f \in VectorFields(type) THEN <<0, 0>>
                 ELSE FALSE]]

GetType(object) == object.type

Getters == {"GetReferenceAngle", "GetLocalXAxisA", "GetLocalYAxisA", "GetMotorSpeed",
            "GetAngularMass", "GetMaxMotorTorque", "GetRatio", "GetFrequency",
            "GetAngularMotorImpulse", "GetTarget", "GetAngularLowerLimit",
            "GetAngularUpperLimit", "IsLimitEnabled", "IsMotorEnabled",
            "GetLinearOffset", "GetAngularOffset", "GetGroundAnchorA",
            "GetGroundAnchorB", "GetLinearMotorImpulse"}

Setters == {"SetMotorSpeed", "SetMaxMotorTorque", "SetFrequency", "SetTarget",
            "SetAngularLimits", "EnableLimit", "EnableMotor", "SetLinearOffset",
            "SetAngularOffset"}

\* The kinds an accessor compares GetType(object) with, in the order of its
\* if-statements.
Branches(op) ==
    CASE op = "GetReferenceAngle"      -> <<"Revolute", "Prismatic", "Weld">>
      [] op = "GetLocalXAxisA"         -> <<"Wheel", "Prismatic">>
      [] op = "GetLocalYAxisA"         -> <<"Wheel", "Prismatic">>
      [] op = "GetMotorSpeed"          -> <<"Revolute", "Prismatic", "Wheel">>
      [] op = "SetMotorSpeed"          -> <<"Revolute", "Prismatic", "Wheel">>
      [] op = "GetAngularMass"         -> <<"Friction", "Motor", "Revolute", "Wheel">>
      [] op = "GetMaxMotorTorque"      -> <<"Revolute", "Wheel">>
      [] op = "SetMaxMotorTorque"      -> <<"Revolute", "Wheel">>
      [] op = "GetRatio"               -> <<"Gear", "Pulley">>
      [] op = "GetFrequency"           -> <<"Distance", "Target", "Weld", "Wheel">>
      [] op = "SetFrequency"           -> <<"Distance", "Target", "Weld", "Wheel">>
      [] op = "GetAngularMotorImpulse" -> <<"Revolute", "Wheel">>
      [] op = "GetTarget"              -> <<"Target">>
      [] op = "SetTarget"              -> <<"Target">>
      [] op = "GetAngularLowerLimit"   -> <<"Revolute">>
      [] op = "GetAngularUpperLimit"   -> <<"Revolute">>
      [] op = "SetAngularLimits"       -> <<"Revolute">>
      [] op = "IsLimitEnabled"         -> <<"Revolute", "Prismatic">>
      [] op = "EnableLimit"            -> <<"Revolute", "Prismatic">>
      [] op = "IsMotorEnabled"         -> <<"Revolute", "Prismatic", "Wheel">>
      [] op = "EnableMotor"            -> <<"Revolute", "Prismatic", "Wheel">>
      [] op = "GetLinearOffset"        -> <<"Motor">>
      [] op = "SetLinearOffset"        -> <<"Motor">>
      [] op = "GetAngularOffset"       -> <<"Motor">>
      [] op = "SetAngularOffset"       -> <<"Motor">>
      [] op = "GetGroundAnchorA"       -> <<"Pulley">>
      [] op = "GetGroundAnchorB"       -> <<"Pulley">>
      [] op = "GetLinearMotorImpulse"  -> <<"Prismatic">>

\* Mutation of Matches: only the first if-statement of the accessor is there.
MatchesFirst(branches, type) == type = branches[1]

\* One of the if-statements of the accessor is taken.
Matches(branches, type) == \E i \in DOMAIN branches : type = branches[i]

\* The field a getter returns from the configuration a branch casts to.
GetterField(op, type) ==
    CASE op = "GetReferenceAngle"      -> "referenceAngle"
      [] op = "GetLocalXAxisA"         -> "localXAxisA"
      [] op = "GetLocalYAxisA"         -> "localYAxisA"
      [] op = "GetMotorSpeed"          -> "motorSpeed"
      [] op = "GetAngularMass"         -> "angularMass"
      [] op = "GetMaxMotorTorque"      -> "maxMotorTorque"
      [] op = "GetRatio"               -> "ratio"
      [] op = "GetFrequency"           -> "frequency"
      [] op = "GetAngularMotorImpulse" -> IF type = "Wheel" THEN "angularReaction"
                                          ELSE "angularMotorImpulse"
      [] op = "GetTarget"              -> "target"
      [] op = "GetAngularLowerLimit"   -> "lowerAngle"
      [] op = "GetAngularUpperLimit"   -> "upperAngle"
      [] op = "IsLimitEnabled"         -> "enableLimit"
      [] op = "IsMotorEnabled"         -> "enableMotor"
      [] op = "GetLinearOffset"        -> "linearOffset"
      [] op = "GetAngularOffset"       -> "angularOffset"
      [] op = "GetGroundAnchorA"       -> "groundAnchorA"
      [] op = "GetGroundAnchorB"       -> "groundAnchorB"
      [] op = "GetLinearMotorImpulse"  -> "linearMotorImpulse"

\* The arguments a setter may be given.
SetterArgs(op) ==
    CASE op \in {"SetTarget", "SetLinearOffset"} -> Vectors
      [] op \in {"EnableLimit", "EnableMotor"}   -> BOOLEAN
      [] op = "SetAngularLimits"                 -> Scalars \X Scalars
      [] OTHER                                   -> Scalars

\* Mutation of Assigned: the Use... call assigns no field.
AssignedNothing(op, value) == [f \in {} |-> value]

\* The fields the Use... calls of a setter assign, with their new values.
Assigned(op, value) ==
    CASE op = "SetMotorSpeed"     -> [f \in {"motorSpeed"} |-> value]
      [] op = "SetMaxMotorTorque" -> [f \in {"maxMotorTorque"} |-> value]
      [] op = "SetFrequency"      -> [f \in {"frequency"} |-> value]
      [] op = "SetTarget"         -> [f \in {"target"} |-> value]
      [] op = "SetAngularLimits"  -> [f \in {"lowerAngle", "upperAngle"} |->
                                        IF f = "lowerAngle" THEN value[1] ELSE value[2]]
      [] op = "EnableLimit"       -> [f \in {"enableLimit"} |-> value]
      [] op = "EnableMotor"       -> [f \in {"enableMotor"} |-> value]
      [] op = "SetLinearOffset"   -> [f \in {"linearOffset"} |-> value]
      [] op = "SetAngularOffset"  -> [f \in {"angularOffset"} |-> value]

\* object = TypeCast<...>(object).Use...(value)
Use(object, assigned) ==
    [object EXCEPT !.conf = [f \in DOMAIN object.conf |->
                                IF f \in DOMAIN assigned THEN assigned[f]
                                ELSE object.conf[f]]]

\* Mutation of ThrowInvalidArgument: the accessor falls off its end.
FallThrough(op, object) ==
    [op |-> op, before |-> object, threw |-> "nothing"]

\* The last statement of every accessor.
ThrowInvalidArgument(op, object) ==
    [op |-> op, before |-> object, threw |-> "std::invalid_argument"]

Returned(op, object, value) ==
    [op |-> op, before |-> object, threw |-> "nothing", value |-> value]

\* A getter: T Get...(const Joint& object).
CallGetter(op) ==
    /\ joint.type \in JointTypes
    /\ LET type == GetType(joint)
       IN jointLast' = IF Matches(Branches(op), type)
                       THEN Returned(op, joint, joint.conf[GetterField(op, type)])
                       ELSE ThrowInvalidArgument(op, joint)
    /\ UNCHANGED joint
    /\ UNCHANGED outsideJoint

\* A setter: void Set...(Joint& object, T value).
CallSetter(op, value) ==
    /\ joint.type \in JointTypes
    /\ LET type == GetType(joint)
       IN IF Matches(Branches(op), type)
          THEN /\ joint' = Use(joint, Assigned(op, value))
               /\ jointLast' = Returned(op, joint, value)
          ELSE /\ jointLast' = ThrowInvalidArgument(op, joint)
               /\ UNCHANGED joint
    /\ UNCHANGED outsideJoint

\* The largest coordinate a joint's target is shifted to.
MaxCoordinate == 2

\* The newOrigin arguments of ShiftOrigin.
NewOrigins == {<<0, 0>>, <<1, 2>>, <<-1, 1>>}

\* Mutation of ShiftedTarget: the new origin is added.
ShiftedBack(target, newOrigin) == <<target[1] + newOrigin[1], target[2] + newOrigin[2]>>

\* object.target -= newOrigin
ShiftedTarget(target, newOrigin) == <<target[1] - newOrigin[1], target[2] - newOrigin[2]>>

\* The kinds whose ShiftOrigin is at hand: that of the target joint, those of
\* the motor and the wheel joint, and that of the prismatic joint by its test.
ShiftableTypes == {"Target", "Motor", "Wheel", "Prismatic"}

\* ShiftOrigin(conf, newOrigin): the configuration after the call and the
\* value returned.
ShiftOriginConf(object, newOrigin) ==
    IF GetType(object) = "Target"
    THEN [object |-> [object EXCEPT !.conf.target = ShiftedTarget(@, newOrigin)],
          value |-> TRUE]
    ELSE [object |-> object, value |-> FALSE]

\* ShiftOrigin is called on the joint.
ShiftOrigin(newOrigin) ==
    /\ GetType(joint) \in ShiftableTypes
    /\ LET result == ShiftOriginConf(joint, newOrigin)
       IN /\ GetType(joint) = "Target" =>
                \A k \in 1 .. 2 : result.object.conf.target[k] \in -MaxCoordinate .. MaxCoordinate
          /\ joint' = result.object
          /\ jointLast' = [op |-> "ShiftOrigin", before |-> joint, threw |-> "nothing",
                           value |-> result.value, newOrigin |-> newOrigin]
    /\ UNCHANGED outsideJoint

\* No broad phase is in use while the Joint is exercised.
BroadPhaseIdle ==
    /\ m_tree = << >>
    /\ m_proxyCount = 0
    /\ m_moveBuffer = << >>
    /\ m_moveCount = 0
    /\ m_moveCapacity = 0
    /\ m_pairBuffer = << >>
    /\ m_pairCount = 0
    /\ m_pairCapacity = 0
    /\ nCalls = 0
    /\ aborted = FALSE
    /\ last = [op |-> "none"]

JointInit ==
    /\ BroadPhaseIdle
    /\ WorldIdle
    /\ DistanceIdle
    /\ LaterIdle
    /\ \E type \in JointTypes : joint = DefaultJoint(type)
    /\ jointLast = [op |-> "Joint"]

JointNext ==
    \/ \E op \in Getters : CallGetter(op)
    \/ \E op \in Setters : \E value \in SetterArgs(op) : CallSetter(op, value)
    \/ \E newOrigin \in NewOrigins : ShiftOrigin(newOrigin)

JointSpec == JointInit /\ [][JointNext]_vars

\* The kinds an accessor supports.
Supported(op) == {Branches(op)[i] : i \in DOMAIN Branches(op)}

\* C11: an accessor called on a Joint whose kind is outside the accessor's
\* supported set (a Joint holding no value included) throws
\* std::invalid_argument, and the Joint is as it was before the call.
C11_UnsupportedKindThrows ==
    (jointLast.op \in Getters \cup Setters
        /\ GetType(jointLast.before) \notin Supported(jointLast.op))
    => (jointLast.threw = "std::invalid_argument" /\ joint = jointLast.before)

\* A setter was refused on a Joint whose fields an earlier setter had changed.
C11_Witness ==
    /\ jointLast.op \in Setters
    /\ jointLast.threw = "std::invalid_argument"
    /\ joint = jointLast.before
    /\ joint # DefaultJoint(joint.type)

\* The getters that read what a setter writes.
SetterGetters(op) ==
    CASE op = "SetMotorSpeed"     -> {"GetMotorSpeed"}
      [] op = "SetMaxMotorTorque" -> {"GetMaxMotorTorque"}
      [] op = "SetFrequency"      -> {"GetFrequency"}
      [] op = "SetTarget"         -> {"GetTarget"}
      [] op = "SetAngularLimits"  -> {"GetAngularLowerLimit", "GetAngularUpperLimit"}
      [] op = "EnableLimit"       -> {"IsLimitEnabled"}
      [] op = "EnableMotor"       -> {"IsMotorEnabled"}
      [] op = "SetLinearOffset"   -> {"GetLinearOffset"}
      [] op = "SetAngularOffset"  -> {"GetAngularOffset"}

\* What a getter called on the object would return: << >> when it throws.
GetterResult(op, object) ==
    IF Matches(Branches(op), GetType(object))
    THEN <<object.conf[GetterField(op, GetType(object))]>>
    ELSE << >>

\* C24: after SetMotorSpeed, EnableLimit or EnableMotor returned, the getter
\* of the property (GetMotorSpeed, IsLimitEnabled, IsMotorEnabled) returns the
\* value that was set, and when the joint already had that value the setter
\* left the joint unchanged.
C24_SetterThenGetter ==
    (jointLast.op \in {"SetMotorSpeed", "EnableLimit", "EnableMotor"}
        /\ jointLast.threw = "nothing")
    => \A getter \in SetterGetters(jointLast.op) :
          /\ GetterResult(getter, joint) = <<jointLast.value>>
          /\ GetterResult(getter, jointLast.before) = <<jointLast.value>>
                => joint = jointLast.before

\* EnableLimit(true) returned on a prismatic joint whose limit was disabled
\* and whose motor speed an earlier SetMotorSpeed had set.
C24_Witness ==
    /\ jointLast.op = "EnableLimit"
    /\ jointLast.threw = "nothing"
    /\ GetType(joint) = "Prismatic"
    /\ jointLast.value = TRUE
    /\ jointLast.before.conf.enableLimit = FALSE
    /\ joint.conf.enableLimit = TRUE
    /\ joint.conf.motorSpeed = 1

\* C28: each setter of Joint.cpp is supported by exactly the kinds that
\* support its getters: it returns on the kinds on which they return and
\* throws on the kinds on which they throw; and a setter that returned left
\* the kind of the joint as it was.
C28_SetterKindsAreGetterKinds ==
    /\ \A setter \in Setters : \A getter \in SetterGetters(setter) :
          Supported(setter) = Supported(getter)
    /\ jointLast.op \in Setters =>
          /\ \A getter \in SetterGetters(jointLast.op) :
                (jointLast.threw = "nothing")
                    <=> (GetType(jointLast.before) \in Supported(getter))
          /\ GetType(joint) = GetType(jointLast.before)

\* SetFrequency returned on a wheel joint, the last of the four kinds it
\* compares with, and changed the frequency.
C28_Witness ==
    /\ jointLast.op = "SetFrequency"
    /\ jointLast.threw = "nothing"
    /\ GetType(joint) = "Wheel"
    /\ GetType(jointLast.before) = "Wheel"
    /\ joint.conf.frequency # jointLast.before.conf.frequency

\* C21: ShiftOrigin on a target joint subtracts newOrigin from the target,
\* changes no other field and returns true; on a motor, wheel or prismatic
\* joint it returns false and changes nothing; and shifting the joint by a
\* and then by b leaves it as shifting it by a + b does.
C21_ShiftOriginTranslates ==
    jointLast.op = "ShiftOrigin" =>
        LET before == jointLast.before
        IN /\ GetType(joint) = GetType(before)
           /\ GetType(before) = "Target" =>
                 /\ jointLast.value = TRUE
                 /\ joint.conf.target[1] = before.conf.target[1] - jointLast.newOrigin[1]
                 /\ joint.conf.target[2] = before.conf.target[2] - jointLast.newOrigin[2]
                 /\ \A f \in DOMAIN before.conf \ {"target"} : joint.conf[f] = before.conf[f]
                 /\ DOMAIN joint.conf = DOMAIN before.conf
           /\ GetType(before) \in {"Motor", "Wheel", "Prismatic"} =>
                 /\ jointLast.value = FALSE
                 /\ joint = before
           /\ \A a, b \in NewOrigins :
                 ShiftOriginConf(ShiftOriginConf(before, a).object, b).object
                     = ShiftOriginConf(before, <<a[1] + b[1], a[2] + b[2]>>).object

\* A target joint with a frequency set, whose target an earlier shift had
\* moved to (2, 1), was shifted again, by (1, 2).
C21_Witness ==
    /\ jointLast.op = "ShiftOrigin"
    /\ GetType(joint) = "Target"
    /\ joint.conf.frequency = 1
    /\ jointLast.before.conf.target = <<2, 1>>
    /\ jointLast.newOrigin = <<1, 2>>
    /\ joint.conf.target = <<1, -1>>

(* ====================================================================== *)
(* World (src/PlayRho/Dynamics/World.hpp)                                 *)
(*                                                                        *)
(* World.hpp declares the operations and states their contracts; the      *)
(* implementation behind m_impl is not among the sources at hand and      *)
(* follows the contracts of World.hpp and the specification text.         *)
(* Fixture f is attached to body f and joint 1 to body 1. Every body is   *)
(* an island of its own; the constraints of its island are its joint and  *)
(* the contact of its fixture, which is also the contact that may have    *)
(* time-of-impact events.                                                 *)
(* ====================================================================== *)

BodyIDs == {1, 2}
FixtureIDs == {1, 2}
JointIDs == {1}

\* The step configurations given to Step.
StepConfs ==
    {[dt |-> 0, doToi |-> TRUE, regVelocityIterations |-> 1,
      regPositionIterations |-> 1, maxSubSteps |-> 1],
     [dt |-> 1, doToi |-> TRUE, regVelocityIterations |-> 2,
      regPositionIterations |-> 2, maxSubSteps |-> 2],
     [dt |-> 1, doToi |-> FALSE, regVelocityIterations |-> 1,
      regPositionIterations |-> 0, maxSubSteps |-> 1]}

Entities == [bodies |-> m_bodies, fixtures |-> m_fixtures, joints |-> m_joints]

SetEntities(w) ==
    /\ m_bodies' = w.bodies
    /\ m_fixtures' = w.fixtures
    /\ m_joints' = w.joints

\* The world that copy-assignment assigns from.
OtherWorld == [bodies |-> {1}, fixtures |-> {}, joints |-> {}]

IsLocked == m_flags.locked
IsStepComplete == m_flags.stepComplete
GetSubStepping == m_flags.subStepping

\* Mutation of LockCheck: no operation looks at the lock.
NoLockCheck(locked) == "nothing"

\* @throws WrongState if this method is called while the world is locked.
LockCheck(locked) == IF locked THEN "WrongState" ELSE "nothing"

\* The operations that are refused while the world is locked, Step aside.
Mutators == {"CreateBody", "DestroyBody", "CreateFixture", "DestroyFixture",
             "CreateJoint", "DestroyJoint", "SetType", "Clear", "ShiftOrigin",
             "operator="}

\* The identifiers an operation may be given in world w (0: it takes none).
Args(op, w) ==
    CASE op = "DestroyBody"    -> w.bodies
      [] op = "SetType"        -> w.bodies
      [] op = "CreateFixture"  -> w.bodies \ w.fixtures
      [] op = "DestroyFixture" -> w.fixtures
      [] op = "CreateJoint"    -> w.bodies \cap JointIDs
      [] op = "DestroyJoint"   -> w.joints
      [] OTHER                 -> {0}

Lowest(ids) == CHOOSE x \in ids : \A y \in ids : x <= y

\* What an operation does to an unlocked world.
Perform(op, id, w) ==
    CASE op = "CreateBody" ->
           IF BodyIDs \ w.bodies = {}
           THEN [world |-> w, threw |-> "LengthError"]
           ELSE [world |-> [w EXCEPT !.bodies = @ \cup {Lowest(BodyIDs \ w.bodies)}],
                 threw |-> "nothing"]
      [] op = "DestroyBody" ->
           [world |-> [bodies |-> w.bodies \ {id}, fixtures |-> w.fixtures \ {id},
                       joints |-> w.joints \ {id}],
            threw |-> "nothing"]
      [] op = "CreateFixture" ->
           [world |-> [w EXCEPT !.fixtures = @ \cup {id}], threw |-> "nothing"]
      [] op = "DestroyFixture" ->
           [world |-> [w EXCEPT !.fixtures = @ \ {id}], threw |-> "nothing"]
      [] op = "CreateJoint" ->
           IF id \in w.joints
           THEN [world |-> w, threw |-> "LengthError"]
           ELSE [world |-> [w EXCEPT !.joints = @ \cup {id}], threw |-> "nothing"]
      [] op = "DestroyJoint" ->
           [world |-> [w EXCEPT !.joints = @ \ {id}], threw |-> "nothing"]
      [] op = "Clear" ->
           [world |-> [bodies |-> {}, fixtures |-> {}, joints |-> {}],
            threw |-> "nothing"]
      [] op = "operator=" -> [world |-> OtherWorld, threw |-> "nothing"]
      [] OTHER -> [world |-> w, threw |-> "nothing"]

\* An operation called on world w.
Invoke(op, id, w, locked) ==
    IF LockCheck(locked) = "WrongState"
    THEN [world |-> w, threw |-> "WrongState"]
    ELSE Perform(op, id, w)

\* What the registered listeners do when the Step calls them: they call
\* every mutator they have an argument for and a nested Step, one after the
\* other, and catch what is thrown.
ListenerOps == <<"CreateBody", "DestroyBody", "CreateFixture", "DestroyFixture",
                 "CreateJoint", "DestroyJoint", "SetType", "Clear", "ShiftOrigin",
                 "operator=", "Step">>

RECURSIVE RunListener(_, _, _, _)
RunListener(k, w, locked, attempts) ==
    IF k > Len(ListenerOps) THEN [world |-> w, attempts |-> attempts]
    ELSE LET op == ListenerOps[k]
         IN IF op = "Step"
            THEN RunListener(k + 1, w, locked,
                             attempts \cup {[op |-> op, threw |-> LockCheck(locked)]})
            ELSE IF Args(op, w) = {}
            THEN RunListener(k + 1, w, locked, attempts)
            ELSE LET id == Lowest(Args(op, w))
                     r == Invoke(op, id, w, locked)
                 IN RunListener(k + 1, r.world, locked,
                                attempts \cup {[op |-> op, threw |-> r.threw]})

\* The listeners are called when there is a contact, that is, a fixture.
Listen ==
    IF m_fixtures = {} THEN [world |-> Entities, attempts |-> {}]
    ELSE RunListener(1, Entities, IsLocked, {})

Event(name, island, constraint) == <<name, island, constraint>>

\* The islands of the world in the order they are solved.
Islands(bodies) == SelectSeq(<<1, 2>>, LAMBDA b : b \in bodies)

\* The constraints of the island of body b in the order they are solved.
Constraints(b) ==
    (IF b \in m_joints THEN << <<"joint", b>> >> ELSE << >>)
    \o (IF b \in m_fixtures THEN << <<"contact", b>> >> ELSE << >>)

Island == step.islands[step.i]

\* The calls of one pass over the constraints of the island.
Pass(name) == [k \in 1 .. Len(Constraints(Island)) |->
                 Event(name, Island, Constraints(Island)[k])]

\* Mutation of AfterRegular: the islands are partitioned and solved again.
AfterRegularAgain(conf) == "islands"

\* Where Step goes after the regular islands.
AfterRegular(conf) == IF conf.doToi THEN "toi" ELSE "return"

StartIsland(i) == [step EXCEPT !.pc = "init", !.i = i, !.iter = 0,
                               !.results = << >>, !.solved = FALSE]

\* A client call of a mutator between steps.
Call(op, id) ==
    /\ step.pc = "idle"
    /\ id \in Args(op, Entities)
    /\ SetEntities(Invoke(op, id, Entities, IsLocked).world)
    /\ UNCHANGED <<m_flags, m_toiCount, step, stepLog, subSteppingGiven>>
    /\ UNCHANGED outsideWorld

SetSubStepping(flag) ==
    /\ step.pc = "idle"
    /\ m_flags' = [m_flags EXCEPT !.subStepping = flag]
    /\ subSteppingGiven' = <<flag>>
    /\ UNCHANGED <<m_bodies, m_fixtures, m_joints, m_toiCount, step, stepLog>>
    /\ UNCHANGED outsideWorld

\* StepStats Step(const StepConf& conf): the call and its lock check.
Step(conf) ==
    /\ step.pc = "idle"
    /\ IF LockCheck(IsLocked) = "WrongState"
       THEN UNCHANGED <<m_flags, step, stepLog>>
       ELSE /\ m_flags' = [m_flags EXCEPT !.locked = TRUE]
            /\ step' = [pc |-> "flush", conf |-> conf, islands |-> << >>, i |-> 0,
                        iter |-> 0, results |-> << >>, solved |-> FALSE,
                        attempts |-> {}, earlier |-> step.earlier]
            /\ stepLog' = << >>
    /\ UNCHANGED <<m_bodies, m_fixtures, m_joints, m_toiCount, subSteppingGiven>>
    /\ UNCHANGED outsideWorld

\* Phase 1: the queued proxy moves are flushed to the broad phase.
SynchronizeProxies ==
    /\ step.pc = "flush"
    /\ stepLog' = Append(stepLog, Event("flush", 0, << >>))
    /\ step' = [step EXCEPT !.pc = "pairs"]
    /\ UNCHANGED <<m_bodies, m_fixtures, m_joints, m_flags, m_toiCount,
                   subSteppingGiven>>
    /\ UNCHANGED outsideWorld

\* Phase 2: the broad phase reports the new pairs. With a zero time delta
\* nothing else is done.
FindNewContacts ==
    /\ step.pc = "pairs"
    /\ stepLog' = Append(stepLog, Event("pairs", 0, << >>))
    /\ step' = [step EXCEPT !.pc = IF step.conf.dt = 0 THEN "return" ELSE "manifolds"]
    /\ UNCHANGED <<m_bodies, m_fixtures, m_joints, m_flags, m_toiCount,
                   subSteppingGiven>>
    /\ UNCHANGED outsideWorld

\* Phase 3: the manifolds of the contacts are updated and the contact
\* listeners are told. A Step that continues an unfinished time slot goes
\* on with its TOI events.
UpdateContacts ==
    /\ step.pc = "manifolds"
    /\ stepLog' = Append(stepLog, Event("manifolds", 0, << >>))
    /\ LET l == Listen
       IN /\ SetEntities(l.world)
          /\ step' = [step EXCEPT !.attempts = l.attempts,
                                  !.pc = IF IsStepComplete THEN "islands"
                                         ELSE AfterRegular(step.conf)]
    /\ UNCHANGED <<m_flags, m_toiCount, subSteppingGiven>>
    /\ UNCHANGED outsideWorld

\* Phase 4: the bodies, contacts and joints are partitioned into islands.
BuildIslands ==
    /\ step.pc = "islands"
    /\ stepLog' = Append(stepLog, Event("islands", 0, << >>))
    /\ LET islands == Islands(m_bodies)
       IN IF islands = << >>
          THEN step' = [step EXCEPT !.pc = AfterRegular(step.conf)]
          ELSE step' = [StartIsland(1) EXCEPT !.islands = islands]
    /\ UNCHANGED <<m_bodies, m_fixtures, m_joints, m_flags, m_toiCount,
                   subSteppingGiven>>
    /\ UNCHANGED outsideWorld

\* Mutation of InitCalls: what InitVelocity computed in an earlier step is
\* used again.
InitCallsOnce == IF step.earlier THEN << >> ELSE Pass("InitVelocity")

\* InitVelocity is called on every constraint of the island, in every step.
InitCalls == Pass("InitVelocity")

\* Velocity solve of an island: InitVelocity on each of its constraints.
InitVelocities ==
    /\ step.pc = "init"
    /\ stepLog' = stepLog \o InitCalls
    /\ step' = [step EXCEPT !.pc = IF step.conf.regVelocityIterations = 0
                                   THEN "integrate" ELSE "velocity"]
    /\ UNCHANGED <<m_bodies, m_fixtures, m_joints, m_flags, m_toiCount,
                   subSteppingGiven>>
    /\ UNCHANGED outsideWorld

\* Velocity solve of an island: one velocity iteration.
SolveVelocities ==
    /\ step.pc = "velocity"
    /\ stepLog' = stepLog \o Pass("SolveVelocity")
    /\ step' = [step EXCEPT !.iter = IF @ + 1 < step.conf.regVelocityIterations
                                     THEN @ + 1 ELSE 0,
                            !.pc = IF step.iter + 1 < step.conf.regVelocityIterations
                                   THEN "velocity" ELSE "integrate"]
    /\ UNCHANGED <<m_bodies, m_fixtures, m_joints, m_flags, m_toiCount,
                   subSteppingGiven>>
    /\ UNCHANGED outsideWorld

\* The positions of the bodies of the island are integrated.
IntegratePositions ==
    /\ step.pc = "integrate"
    /\ stepLog' = Append(stepLog, Event("integrate", Island, << >>))
    /\ step' = [step EXCEPT !.pc = IF step.conf.regPositionIterations = 0
                                   THEN "sleep" ELSE "position"]
    /\ UNCHANGED <<m_bodies, m_fixtures, m_joints, m_flags, m_toiCount,
                   subSteppingGiven>>
    /\ UNCHANGED outsideWorld

\* Mutation of WithinTolerance: the iteration is taken to have succeeded when
\* its last constraint was within tolerance.
LastWithinTolerance(results) == results = << >> \/ results[Len(results)]

\* Every SolvePosition of the iteration returned true.
WithinTolerance(results) == \A k \in DOMAIN results : results[k]

\* Position solve of an island: one position iteration. results[k] is what
\* SolvePosition returned for the k-th constraint.
SolvePositions ==
    /\ step.pc = "position"
    /\ stepLog' = stepLog \o Pass("SolvePosition")
    /\ \E results \in [1 .. Len(Constraints(Island)) -> BOOLEAN] :
         LET solved == WithinTolerance(results)
         IN step' = [step EXCEPT !.iter = @ + 1,
                                 !.results = Append(@, results),
                                 !.solved = solved,
                                 !.pc = IF solved
                                           \/ step.iter + 1 >= step.conf.regPositionIterations
                                        THEN "sleep" ELSE "position"]
    /\ UNCHANGED <<m_bodies, m_fixtures, m_joints, m_flags, m_toiCount,
                   subSteppingGiven>>
    /\ UNCHANGED outsideWorld

\* Sleep detection of the island, after which the post-solve listener is
\* told; then the next island, or the TOI phase.
UpdateSleep ==
    /\ step.pc = "sleep"
    /\ stepLog' = Append(stepLog, Event(IF step.solved THEN "sleep-solved" ELSE "sleep",
                                    Island, << >>))
    /\ LET l == Listen
           next == IF step.i < Len(step.islands)
                   THEN StartIsland(step.i + 1)
                   ELSE [step EXCEPT !.pc = AfterRegular(step.conf)]
       IN /\ SetEntities(l.world)
          /\ step' = [next EXCEPT !.attempts = l.attempts]
    /\ UNCHANGED <<m_flags, m_toiCount, subSteppingGiven>>
    /\ UNCHANGED outsideWorld

\* Mutation of BelowMaxSubSteps: the sub-steps of a contact are not limited.
AnySubSteps(count, conf) == TRUE

\* A contact takes part in the TOI phase while it has had fewer than
\* maxSubSteps sub-steps.
BelowMaxSubSteps(count, conf) == count < conf.maxSubSteps

\* Mutation of ReturnsAfterSubStep: Step returns after every sub-step.
AlwaysReturnsAfterSubStep == TRUE

\* With sub-stepping Step returns after one sub-step.
ReturnsAfterSubStep == GetSubStepping

\* TOI phase: the soonest TOI event is that of the given contact; the step is
\* advanced to it and solved.
SolveToi(contact) ==
    /\ step.pc = "toi"
    /\ contact \in m_fixtures
    /\ BelowMaxSubSteps(m_toiCount[contact], step.conf)
    /\ m_toiCount' = [m_toiCount EXCEPT ![contact] = @ + 1]
    /\ stepLog' = Append(stepLog, Event("toi", 0, <<"contact", contact>>))
    /\ LET l == Listen
       IN /\ SetEntities(l.world)
          /\ step' = [step EXCEPT !.attempts = l.attempts,
                                  !.pc = IF ReturnsAfterSubStep THEN "return" ELSE "toi"]
    /\ m_flags' = IF ReturnsAfterSubStep THEN [m_flags EXCEPT !.stepComplete = FALSE]
                  ELSE m_flags
    /\ UNCHANGED subSteppingGiven
    /\ UNCHANGED outsideWorld

\* TOI phase: no TOI event is left in the time slot, which ends the time
\* slot and the counts of its sub-steps.
ToiDone ==
    /\ step.pc = "toi"
    /\ m_flags' = [m_flags EXCEPT !.stepComplete = TRUE]
    /\ m_toiCount' = [f \in FixtureIDs |-> 0]
    /\ step' = [step EXCEPT !.pc = "return"]
    /\ UNCHANGED <<m_bodies, m_fixtures, m_joints, stepLog, subSteppingGiven>>
    /\ UNCHANGED outsideWorld

\* Step returns and the world is unlocked.
StepReturn ==
    /\ step.pc = "return"
    /\ m_flags' = [m_flags EXCEPT !.locked = FALSE]
    /\ step' = [pc |-> "idle", earlier |-> TRUE]
    /\ stepLog' = << >>
    /\ UNCHANGED <<m_bodies, m_fixtures, m_joints, m_toiCount, subSteppingGiven>>
    /\ UNCHANGED outsideWorld

\* World::World(): an empty, unlocked world with sub-stepping off.
WorldInit ==
    /\ BroadPhaseIdle
    /\ JointIdle
    /\ DistanceIdle
    /\ LaterIdle
    /\ m_bodies = {}
    /\ m_fixtures = {}
    /\ m_joints = {}
    /\ m_flags = [locked |-> FALSE, subStepping |-> FALSE, stepComplete |-> TRUE]
    /\ m_toiCount = [f \in FixtureIDs |-> 0]
    /\ step = [pc |-> "idle", earlier |-> FALSE]
    /\ stepLog = << >>
    /\ subSteppingGiven = << >>

\* The steps Step takes between its call and its return.
StepNext ==
    \/ SynchronizeProxies
    \/ FindNewContacts
    \/ UpdateContacts
    \/ BuildIslands
    \/ InitVelocities
    \/ SolveVelocities
    \/ IntegratePositions
    \/ SolvePositions
    \/ UpdateSleep
    \/ \E contact \in FixtureIDs : SolveToi(contact)
    \/ ToiDone
    \/ StepReturn

WorldNext ==
    \/ \E op \in Mutators : \E id \in BodyIDs \cup {0} : Call(op, id)
    \/ \E flag \in BOOLEAN : SetSubStepping(flag)
    \/ \E conf \in StepConfs : Step(conf)
    \/ StepNext

WorldSpec == WorldInit /\ [][WorldNext]_vars

\* Step runs to its return once called: it is not suspended.
WorldFairSpec == WorldSpec /\ WF_vars(StepNext)

(* ---------------------------- world claims ---------------------------- *)

\* C12: while the world is locked, CreateBody, Destroy(BodyID), CreateFixture,
\* Destroy(FixtureID), CreateJoint, Destroy(JointID), SetType, Clear,
\* ShiftOrigin, copy-assignment and a nested Step, called from a listener,
\* throw WrongState and the sets of bodies, fixtures and joints stay as they
\* are; the world is locked from the call of Step to its return, and it is
\* not locked when no Step is in progress.
C12_LockedRefuses ==
    [][ /\ IsLocked => Entities' = Entities
        /\ step'.pc # "idle" => \A a \in step'.attempts : a.threw = "WrongState"
        /\ m_flags'.locked <=> step'.pc # "idle" ]_vars

\* The listeners of a Step tried all eleven operations on a world with two
\* bodies, a fixture and a joint.
C12_Witness ==
    /\ step.pc \notin {"idle", "none"}
    /\ {a.op : a \in step.attempts} = Mutators \cup {"Step"}
    /\ m_bodies = {1, 2}
    /\ m_fixtures = {1}
    /\ m_joints = {1}

\* The place of a phase in the order of a Step.
PhaseRank(event) ==
    CASE event[1] = "flush"         -> 1
      [] event[1] = "pairs"         -> 2
      [] event[1] = "manifolds"     -> 3
      [] event[1] = "islands"       -> 4
      [] event[1] = "InitVelocity"  -> 10 * event[2] + 1
      [] event[1] = "SolveVelocity" -> 10 * event[2] + 1
      [] event[1] = "integrate"     -> 10 * event[2] + 2
      [] event[1] = "SolvePosition" -> 10 * event[2] + 3
      [] event[1] = "sleep"         -> 10 * event[2] + 4
      [] event[1] = "sleep-solved"  -> 10 * event[2] + 4
      [] event[1] = "toi"           -> 100

\* The phases in which Step makes one call after the other.
Repeated == {"InitVelocity", "SolveVelocity", "SolvePosition", "toi"}

\* C13: in every Step call the phases come in the order flush of the proxy
\* moves, pair update, manifold update, island partitioning, then island by
\* island velocity solve, position integration, position solve and sleep
\* detection, and the TOI sub-steps after the last island; no phase is
\* entered a second time or before an earlier one is over.
C13_PhaseOrder ==
    /\ stepLog # << >> => stepLog[1][1] = "flush"
    /\ \A k \in 1 .. Len(stepLog) - 1 :
          \/ PhaseRank(stepLog[k]) < PhaseRank(stepLog[k + 1])
          \/ /\ PhaseRank(stepLog[k]) = PhaseRank(stepLog[k + 1])
             /\ stepLog[k + 1][1] \in Repeated

\* A Step that solved two islands and then took a TOI sub-step.
C13_Witness ==
    /\ \E k \in DOMAIN stepLog : stepLog[k][1] = "toi"
    /\ \E k \in DOMAIN stepLog : stepLog[k] = Event("SolvePosition", 1, <<"contact", 1>>)
    /\ \E k \in DOMAIN stepLog : stepLog[k] = Event("SolvePosition", 2, <<"contact", 2>>)

SubSteps(contact) ==
    Cardinality({k \in DOMAIN stepLog : stepLog[k] = Event("toi", 0, <<"contact", contact>>)})

\* C15: the TOI phase of a Step comes to an end, and no contact gets more
\* than StepConf.maxSubSteps sub-steps in one Step.
C15_ToiTerminates ==
    /\ [](step.pc = "toi" => \A f \in FixtureIDs : SubSteps(f) <= step.conf.maxSubSteps)
    /\ (step.pc = "toi") ~> (step.pc = "return")

\* A TOI phase in which one contact has had its two sub-steps and the other
\* contact one.
C15_Witness ==
    /\ step.pc = "toi"
    /\ step.conf.maxSubSteps = 2
    /\ SubSteps(1) = 2
    /\ SubSteps(2) = 1

AllTrue(results) == \A k \in DOMAIN results : results[k] = TRUE

C17_SolverProtocol ==
    \A k \in DOMAIN stepLog :
        LET e == stepLog[k]
        IN /\ e[1] = "SolveVelocity" =>
                \E j \in 1 .. k - 1 : stepLog[j] = Event("InitVelocity", e[2], e[3])
           /\ e[1] = "SolvePosition" =>
                /\ \E j \in 1 .. k - 1 : stepLog[j] = Event("SolveVelocity", e[2], e[3])
                /\ \A j \in k + 1 .. Len(stepLog) :
                      stepLog[j] # Event("SolveVelocity", e[2], e[3])

\* In a later step the joint and the contact of island 1 had two velocity
\* iterations and a position iteration.
C17_Witness ==
    /\ step.pc = "sleep"
    /\ step.earlier
    /\ step.conf.regVelocityIterations = 2
    /\ Len(Constraints(Island)) = 2

(* ------------------------------ Distance ------------------------------ *)
(* Distance(cache, proxyA, xfA, proxyB, xfB) of Box2D/Collision/Distance.h,  *)
(* as the unit tests of Distance.cpp call it: the GJK iteration on a         *)
(* simplex of at most three support-point pairs. Vertices have integer       *)
(* coordinates; xfA is the identity and xfB a translation; the barycentric   *)
(* coefficients of the simplex are kept as integer weights over their sum.   *)

\* TEST(Distance, ...): the vertices of the two proxies, and the expected
\* iterations, cache count, cache metric and doubled witness points.
Tests ==
    LET square1 == << <<1, 1>>, <<1, 3>>, <<3, 3>>, <<3, 1>> >>
        square2 == << <<2, 2>>, <<2, 4>>, <<4, 4>>, <<4, 2>> >>
        T(A, B, it, n, m, a2, b2) ==
            [proxyA |-> A, proxyB |-> B, iterations |-> it, count |-> n,
             metric |-> m, a2 |-> a2, b2 |-> b2]
    IN { T(<< <<2, 2>> >>, << <<2, 2>> >>, 0, 1, 0, <<4, 4>>, <<4, 4>>),
         T(<< <<2, 2>> >>, << <<-2, -2>> >>, 1, 1, 0, <<4, 4>>, <<-4, -4>>),
         T(<< <<-2, 2>> >>, << <<2, 2>> >>, 1, 1, 0, <<-4, 4>>, <<4, 4>>),
         T(<< <<1, 1>> >>, << <<-1, -1>> >>, 1, 1, 0, <<2, 2>>, <<-2, -2>>),
         T(<< <<-1, -1>> >>, << <<1, 1>> >>, 1, 1, 0, <<-2, -2>>, <<2, 2>>),
         T(<< <<0, 2>>, <<4, 2>> >>, << <<2, 2>> >>, 2, 2, 4, <<4, 4>>, <<4, 4>>),
         T(<< <<-3, 2>>, <<7, 2>> >>, << <<2, 2>> >>, 2, 2, 10, <<4, 4>>, <<4, 4>>),
         T(<< <<0, 3>>, <<4, 3>> >>, << <<2, 1>> >>, 2, 2, 4, <<4, 6>>, <<4, 2>>),
         T(square1, << <<-2, 0>>, <<6, 0>> >>, 2, 2, 8, <<2, 2>>, <<2, 0>>),
         T(square1, << <<4, -2>>, <<4, 6>> >>, 3, 2, 10, <<6, 4>>, <<8, 4>>),
         T(square2, square2, 0, 1, 0, <<4, 4>>, <<4, 4>>),
         T(square2, << <<4, 2>>, <<4, 4>>, <<6, 4>>, <<6, 2>> >>,
           3, 2, 4, <<8, 6>>, <<8, 6>>),
         T(<< <<-3, -3>>, <<-3, -1>>, <<-1, -1>>, <<-1, -3>> >>,
           << <<1, 3>>, <<3, 3>>, <<3, 1>>, <<1, 1>> >>,
           2, 1, 0, <<-2, -2>>, <<2, 2>>),
         T(<< <<-3, 1>>, <<-3, -3>>, <<1, -3>>, <<1, 1>> >>,
           << <<3, 3>>, <<-1, 3>>, <<-1, -1>>, <<-1, 3>> >>,
           2, 3, -64, <<0, 1>>, <<0, 1>>) }

\* Positions of xfB; the tests use the first.
Translations == {<<0, 0>>, <<1, 0>>, <<0, -2>>, <<-1, 1>>}

\* Configured maxima of the iteration count; the tests use the last.
MaxIterations == {1, 2, 20}

Dot(a, b) == a[1] * b[1] + a[2] * b[2]

Cross(a, b) == a[1] * b[2] - a[2] * b[1]

Minus(a, b) == <<a[1] - b[1], a[2] - b[2]>>

Plus(a, b) == <<a[1] + b[1], a[2] + b[2]>>

Scaled(k, a) == <<k * a[1], k * a[2]>>

\* Square root, rounded down.
Sqrt(n) == CHOOSE r \in 0 .. n : r * r <= n /\ (r + 1) * (r + 1) > n

\* The greatest common divisor of three numbers, the first positive.
Gcd(a, b, c) ==
    LET divisors == {g \in 1 .. a : a % g = 0 /\ b % g = 0 /\ c % g = 0}
    IN CHOOSE g \in divisors : \A h \in divisors : h <= g

\* DistanceProxy::GetVertex, by the index the source counts from 0.
GetVertex(proxy, index) == proxy[index + 1]

\* DistanceProxy::GetSupport: the first vertex that is furthest along d.
GetSupport(proxy, d) ==
    (CHOOSE i \in DOMAIN proxy :
        \A j \in DOMAIN proxy :
            /\ Dot(proxy[j], d) <= Dot(proxy[i], d)
            /\ j < i => Dot(proxy[j], d) < Dot(proxy[i], d)) - 1

\* A simplex vertex: the support points of the two proxies in world
\* coordinates, their difference, and the weight a.
SimplexVertex(in, indexA, indexB, a) ==
    LET wA == GetVertex(in.proxyA, indexA)
        wB == Plus(GetVertex(in.proxyB, indexB), in.xfB)
    IN [indexA |-> indexA, indexB |-> indexB, wA |-> wA, wB |-> wB,
        w |-> Minus(wB, wA), a |-> a]

Weighted(v, a) == [v EXCEPT !.a = a]

\* Weights reduced to lowest terms.
Reduced2(v1, a1, v2, a2) ==
    LET g == Gcd(a1, a2, 0) IN <<Weighted(v1, a1 \div g), Weighted(v2, a2 \div g)>>

Reduced3(v1, a1, v2, a2, v3, a3) ==
    LET g == Gcd(a1, a2, a3)
    IN <<Weighted(v1, a1 \div g), Weighted(v2, a2 \div g), Weighted(v3, a3 \div g)>>

\* Simplex::GetMetric: 0, the length of the edge, or the signed area.
GetMetric(simplex) ==
    CASE Len(simplex) = 1 -> 0
      [] Len(simplex) = 2 ->
            LET e12 == Minus(simplex[2].w, simplex[1].w) IN Sqrt(Dot(e12, e12))
      [] Len(simplex) = 3 ->
            Cross(Minus(simplex[2].w, simplex[1].w), Minus(simplex[3].w, simplex[1].w))

\* Simplex::Solve2: the point of the segment w1 w2 closest to the origin.
Solve2(v1, v2) ==
    LET e12 == Minus(v2.w, v1.w)
        d12_2 == 0 - Dot(v1.w, e12)
        d12_1 == Dot(v2.w, e12)
    IN IF d12_2 <= 0 THEN <<Weighted(v1, 1)>>
       ELSE IF d12_1 <= 0 THEN <<Weighted(v2, 1)>>
       ELSE Reduced2(v1, d12_1, v2, d12_2)

\* Simplex::Solve3: the point of the triangle w1 w2 w3 closest to the origin.
Solve3(v1, v2, v3) ==
    LET e12 == Minus(v2.w, v1.w)
        d12_1 == Dot(v2.w, e12)
        d12_2 == 0 - Dot(v1.w, e12)
        e13 == Minus(v3.w, v1.w)
        d13_1 == Dot(v3.w, e13)
        d13_2 == 0 - Dot(v1.w, e13)
        e23 == Minus(v3.w, v2.w)
        d23_1 == Dot(v3.w, e23)
        d23_2 == 0 - Dot(v2.w, e23)
        n123 == Cross(e12, e13)
        d123_1 == n123 * Cross(v2.w, v3.w)
        d123_2 == n123 * Cross(v3.w, v1.w)
        d123_3 == n123 * Cross(v1.w, v2.w)
    IN IF d12_2 <= 0 /\ d13_2 <= 0 THEN <<Weighted(v1, 1)>>
       ELSE IF d12_1 > 0 /\ d12_2 > 0 /\ d123_3 <= 0 THEN Reduced2(v1, d12_1, v2, d12_2)
       ELSE IF d13_1 > 0 /\ d13_2 > 0 /\ d123_2 <= 0 THEN Reduced2(v1, d13_1, v3, d13_2)
       ELSE IF d12_1 <= 0 /\ d23_2 <= 0 THEN <<Weighted(v2, 1)>>
       ELSE IF d13_1 <= 0 /\ d23_1 <= 0 THEN <<Weighted(v3, 1)>>
       ELSE IF d23_1 > 0 /\ d23_2 > 0 /\ d123_1 <= 0 THEN Reduced2(v3, d23_2, v2, d23_1)
       ELSE Reduced3(v1, d123_1, v2, d123_2, v3, d123_3)

Solve(simplex) ==
    CASE Len(simplex) = 1 -> <<Weighted(simplex[1], 1)>>
      [] Len(simplex) = 2 -> Solve2(simplex[1], simplex[2])
      [] Len(simplex) = 3 -> Solve3(simplex[1], simplex[2], simplex[3])

\* Simplex::GetSearchDirection: towards the origin.
GetSearchDirection(simplex) ==
    IF Len(simplex) = 1 THEN Scaled(-1, simplex[1].w)
    ELSE LET e12 == Minus(simplex[2].w, simplex[1].w)
             sgn == Cross(e12, Scaled(-1, simplex[1].w))
         IN IF sgn > 0 THEN <<0 - e12[2], e12[1]>> ELSE <<e12[2], 0 - e12[1]>>

\* Mutation of IsTiny: no search direction ends the loop.
NeverTiny(d) == FALSE

\* The search direction is shorter than epsilon: integer vectors are, only
\* if they are zero.
IsTiny(d) == d = <<0, 0>>

\* The sum of a field of the (at most three) vertices, each times its weight.
WeightedSum(simplex, field) ==
    LET term(k) == IF k \in DOMAIN simplex THEN Scaled(simplex[k].a, simplex[k][field])
                   ELSE <<0, 0>>
    IN Plus(Plus(term(1), term(2)), term(3))

Weight(simplex) ==
    LET a(k) == IF k \in DOMAIN simplex THEN simplex[k].a ELSE 0
    IN a(1) + a(2) + a(3)

\* Simplex::GetWitnessPoints: a / den on proxy A and b / den on proxy B, of
\* the vertices that have been solved; closest / den is their difference.
GetWitnessPoints(simplex) ==
    [a |-> WeightedSum(simplex, "wA"),
     b |-> WeightedSum(simplex, "wB"),
     closest |-> WeightedSum(simplex, "w"),
     den |-> Weight(simplex)]

SamePoints(o1, o2) ==
    /\ Scaled(o2.den, o1.a) = Scaled(o1.den, o2.a)
    /\ Scaled(o2.den, o1.b) = Scaled(o1.den, o2.b)

\* o1 is at most as far from the origin as o2.
Closer(o1, o2) ==
    Dot(o1.closest, o1.closest) * o2.den * o2.den
        <= Dot(o2.closest, o2.closest) * o1.den * o1.den

IndexPairs(simplex) == [k \in DOMAIN simplex |-> <<simplex[k].indexA, simplex[k].indexB>>]

\* Mutation of ReadIndices: the index pairs are read from the last to the
\* first.
ReadReversed(c) == [k \in DOMAIN c.indices |-> c.indices[Len(c.indices) + 1 - k]]

ReadIndices(c) == c.indices

\* Simplex::ReadCache: the vertices of the cached index pairs, unless their
\* metric is far from the cached one or not positive; then, and with an empty
\* cache, the first vertices of the proxies.
ReadCache(c, in) ==
    LET pairs == ReadIndices(c)
        cached == [k \in DOMAIN pairs |-> SimplexVertex(in, pairs[k][1], pairs[k][2], 0)]
        metric1 == c.metric
        metric2 == GetMetric(cached)
        flush == /\ Len(cached) > 1
                 /\ (2 * metric2 < metric1 \/ 2 * metric1 < metric2 \/ metric2 <= 0)
    IN IF cached = << >> \/ flush THEN <<SimplexVertex(in, 0, 0, 1)>> ELSE cached

\* Simplex::WriteCache.
WriteCache(simplex) ==
    [indices |-> IndexPairs(simplex), metric |-> GetMetric(simplex), metricSet |-> TRUE]

\* Mutation of WithinIterations: the loop does not count.
AnyIterations(iter, maxIterations) == TRUE

\* while (iter < maxIterations)
WithinIterations(iter, maxIterations) == iter < maxIterations

Input == [proxyA |-> distance.proxyA, proxyB |-> distance.proxyB, xfB |-> distance.xfB]

\* Distance is called: with the empty cache first, and then with the cache
\* the first call left.
Distance ==
    /\ distance.pc \in {"ready", "done"}
    /\ distance.calls < 2
    /\ distance' = [distance EXCEPT
                      !.pc = "loop",
                      !.simplex = ReadCache(cache, Input),
                      !.iter = 0,
                      !.why = "none",
                      !.previous = GetWitnessPoints(ReadCache(cache, Input)),
                      !.calls = @ + 1,
                      !.first = IF distance.pc = "done"
                                THEN <<[output |-> distance.output, cache |-> cache,
                                        why |-> distance.why]>>
                                ELSE << >>]
    /\ UNCHANGED cache
    /\ UNCHANGED outsideDistance

\* One turn of the loop: solve the simplex, look for the support points in
\* the search direction, and add them to the simplex if they are new.
Iterate ==
    /\ distance.pc = "loop"
    /\ WithinIterations(distance.iter, distance.maxIterations)
    /\ \E solved \in {Solve(distance.simplex)} :
       \E d \in {GetSearchDirection(solved)} :
       \E vertex \in {SimplexVertex(Input, GetSupport(distance.proxyA, Scaled(-1, d)),
                                     GetSupport(distance.proxyB, d), 0)} :
       LET saved == IndexPairs(distance.simplex)
           duplicate == \E k \in DOMAIN saved : saved[k] = <<vertex.indexA, vertex.indexB>>
       IN distance' =
            IF Len(solved) = 3
            THEN [distance EXCEPT !.pc = "exit", !.simplex = solved, !.why = "three",
                                  !.previous = GetWitnessPoints(distance.simplex)]
            ELSE IF IsTiny(d)
            THEN [distance EXCEPT !.pc = "exit", !.simplex = solved, !.why = "tiny",
                                  !.previous = GetWitnessPoints(distance.simplex)]
            ELSE IF duplicate
            THEN [distance EXCEPT !.pc = "exit", !.simplex = solved, !.why = "duplicate",
                                  !.iter = @ + 1,
                                  !.previous = GetWitnessPoints(distance.simplex)]
            ELSE [distance EXCEPT !.simplex = Append(solved, vertex), !.iter = @ + 1,
                                  !.previous = GetWitnessPoints(solved)]
    /\ UNCHANGED cache
    /\ UNCHANGED outsideDistance

\* The loop is over, by a break or by the iteration count: the witness
\* points of the simplex are the output, and the simplex is cached.
Return ==
    /\ \/ distance.pc = "exit"
       \/ /\ distance.pc = "loop"
          /\ ~WithinIterations(distance.iter, distance.maxIterations)
    /\ distance' = [distance EXCEPT
                      !.pc = "done",
                      !.why = IF distance.pc = "loop" THEN "max" ELSE @,
                      !.output = [witnessPoints |-> GetWitnessPoints(distance.simplex),
                                  iterations |-> distance.iter]]
    /\ cache' = WriteCache(distance.simplex)
    /\ UNCHANGED outsideDistance

DistanceInit ==
    /\ BroadPhaseIdle
    /\ JointIdle
    /\ WorldIdle
    /\ LaterIdle
    /\ cache = [indices |-> << >>, metric |-> 0, metricSet |-> FALSE]
    /\ \E t \in Tests : \E p \in Translations : \E n \in MaxIterations :
          distance = [pc |-> "ready", test |-> t, proxyA |-> t.proxyA,
                      proxyB |-> t.proxyB, xfB |-> p, maxIterations |-> n,
                      simplex |-> << >>, iter |-> 0, why |-> "none", calls |-> 0,
                      previous |-> << >>, output |-> << >>, first |-> << >>]

DistanceNext == Distance \/ Iterate \/ Return

DistanceSpec == DistanceInit /\ [][DistanceNext]_vars

\* A call of Distance runs to its return.
DistanceFairSpec == DistanceSpec /\ WF_vars(Iterate \/ Return)

\* The calls of the unit tests give what the tests expect.
AsTested ==
    (/\ distance.pc = "done"
     /\ distance.calls = 1
     /\ distance.xfB = <<0, 0>>
     /\ distance.maxIterations = 20)
    => LET t == distance.test
           o == distance.output.witnessPoints
       IN /\ distance.output.iterations = t.iterations
          /\ Len(cache.indices) = t.count
          /\ cache.metric = t.metric
          /\ cache.metricSet
          /\ Scaled(2, o.a) = Scaled(o.den, t.a2)
          /\ Scaled(2, o.b) = Scaled(o.den, t.b2)

(* --------------------------- Distance claims --------------------------- *)

\* C18: every Distance call returns; the iteration count it reports is at
\* most the configured maximum; and whether the loop ends at the maximum, at
\* a duplicate support point or otherwise, the output has witness points,
\* which are at least as close as those of every simplex the loop had before.
C18_DistanceTerminates ==
    /\ [](distance.pc = "done" =>
            /\ distance.output.iterations <= distance.maxIterations
            /\ distance.why \in {"max", "duplicate", "tiny", "three"}
            /\ distance.output.witnessPoints.den > 0)
    /\ [](distance.pc \in {"loop", "exit", "done"} =>
            Closer(GetWitnessPoints(distance.simplex), distance.previous))
    /\ (distance.pc = "loop") ~> (distance.pc = "done")

\* A call that ended at its maximum of two iterations, with a simplex of two
\* solved vertices.
C18_Witness ==
    /\ distance.pc = "done"
    /\ distance.why = "max"
    /\ distance.output.iterations = 2
    /\ distance.output.witnessPoints.den > 1

Coincide == GetVertex(distance.proxyA, 0) = Plus(GetVertex(distance.proxyB, 0), distance.xfB)

\* C20: after a call with the empty cache the cache has its metric set and
\* has one, two or three index pairs of vertices the proxies have; if the
\* first vertices of the proxies coincide, the call reports 0 iterations and
\* that vertex as both witness points, and the cache has the one index pair
\* (0,0) and the metric 0.
C20_CacheAfterCall ==
    (distance.pc = "done" /\ distance.calls = 1) =>
        /\ cache.metricSet
        /\ Len(cache.indices) \in 1 .. 3
        /\ \A k \in DOMAIN cache.indices :
              /\ cache.indices[k][1] \in 0 .. Len(distance.proxyA) - 1
              /\ cache.indices[k][2] \in 0 .. Len(distance.proxyB) - 1
        /\ Coincide =>
              LET o == distance.output.witnessPoints
              IN /\ distance.output.iterations = 0
                 /\ o.a = Scaled(o.den, GetVertex(distance.proxyA, 0))
                 /\ o.b = o.a
                 /\ cache.indices = << <<0, 0>> >>
                 /\ cache.metric = 0

\* The call for two squares whose first vertices coincide has returned.
C20_Witness ==
    /\ distance.pc = "done"
    /\ distance.calls = 1
    /\ Coincide
    /\ Len(distance.proxyA) = 4
    /\ Len(distance.proxyB) = 4

(* ====================================================================== *)
(* GrowableStack (src/PlayRho/Common/GrowableStack.hpp)                   *)
(*                                                                        *)
(* A stack of T that starts in the array m_array of N elements held in    *)
(* the object and moves to a block of the heap, twice as large as the     *)
(* storage it leaves, when an element is pushed onto a full stack.        *)
(* ====================================================================== *)

\* The initial capacities N the template is made with. An array of no
\* element is not a C++ array, so N is at least 1.
InitialCapacities == {1, 2, 3}

\* The elements pushed.
Elements == {"a", "b"}

\* The largest size the stack is pushed to.
MaxSize == 5

\* What a slot holds that nothing was written to.
Indeterminate == "indeterminate"

EarlierIdle ==
    /\ BroadPhaseIdle
    /\ JointIdle
    /\ WorldIdle
    /\ DistanceIdle

GetInitialCapacity == stack.N

GetBufferGrowthRate == 2

\* Alloc<T>(capacity): a block of the heap that nothing was written to.
Alloc(capacity) == [i \in 1 .. capacity |-> Indeterminate]

\* Mutation of Memcpy: the last element is not copied.
MemcpyButLast(to, from, count) ==
    [i \in DOMAIN to |-> IF i < count THEN from[i] ELSE to[i]]

\* std::memcpy(m_stack, old, m_count * sizeof(T))
Memcpy(to, from, count) ==
    [i \in DOMAIN to |-> IF i <= count THEN from[i] ELSE to[i]]

\* Mutation of Grown: the capacity grows by one element.
GrownByOne(capacity) == capacity + 1

\* m_capacity *= GetBufferGrowthRate()
Grown(capacity) == capacity * GetBufferGrowthRate

\* The k-th slot of C++, m_stack[k], is slot k + 1 of cells.
Slot(k) == k + 1

\* void push(const ElementType& element)
push(element) ==
    /\ stack.N \in InitialCapacities
    /\ stack.m_count < MaxSize
    /\ LET grows == stack.m_count = stack.m_capacity
           capacity == IF grows THEN Grown(stack.m_capacity) ELSE stack.m_capacity
           old == stack.m_stack
           moved == IF grows
                    THEN [at |-> "heap",
                          cells |-> Memcpy(Alloc(capacity), old.cells, stack.m_count)]
                    ELSE old
           written == [moved EXCEPT !.cells[Slot(stack.m_count)] = element]
       IN /\ stack' = [stack EXCEPT
                          !.m_capacity = capacity,
                          !.m_stack = written,
                          !.m_array = IF written.at = "m_array" THEN written.cells ELSE @,
                          !.m_count = @ + 1]
          /\ stackLast' = [op |-> "push", before |-> stack, element |-> element,
                           freed |-> grows /\ old.at # "m_array"]
    /\ pushed' = Append(pushed, element)
    /\ UNCHANGED outsideStack

\* ElementType top() const, called as its assertion allows.
top ==
    /\ stack.N \in InitialCapacities
    /\ stack.m_count > 0
    /\ stackLast' = [op |-> "top", before |-> stack,
                     value |-> stack.m_stack.cells[Slot(stack.m_count - 1)]]
    /\ UNCHANGED <<stack, pushed>>
    /\ UNCHANGED outsideStack

\* void pop() noexcept, called as its assertion allows.
pop ==
    /\ stack.N \in InitialCapacities
    /\ stack.m_count > 0
    /\ stack' = [stack EXCEPT !.m_count = @ - 1]
    /\ stackLast' = [op |-> "pop", before |-> stack]
    /\ pushed' = SubSeq(pushed, 1, Len(pushed) - 1)
    /\ UNCHANGED outsideStack

\* GrowableStack() = default
StackInit ==
    /\ EarlierIdle
    /\ BodyIdle
    /\ TestIdle
    /\ \E N \in InitialCapacities :
          stack = [N |-> N,
                   m_array |-> Alloc(N),
                   m_stack |-> [at |-> "m_array", cells |-> Alloc(N)],
                   m_count |-> 0,
                   m_capacity |-> N]
    /\ pushed = << >>
    /\ stackLast = [op |-> "GrowableStack"]

StackNext ==
    \/ \E element \in Elements : push(element)
    \/ top
    \/ pop

StackSpec == StackInit /\ [][StackNext]_vars

size == stack.m_count

capacity == stack.m_capacity

\* C25: the slots below the size hold the elements pushed and not yet
\* popped, oldest first, whatever growths happened in between; top returns
\* the last of them and pop removes exactly that one.
C25_LastInFirstOut ==
    stack.N \in InitialCapacities =>
        /\ size = Len(pushed)
        /\ \A k \in 0 .. size - 1 : stack.m_stack.cells[Slot(k)] = pushed[k + 1]
        /\ stackLast.op = "top" => stackLast.value = pushed[Len(pushed)]
        /\ stackLast.op = "pop" =>
              \A k \in 0 .. size - 1 :
                 stack.m_stack.cells[Slot(k)] = stackLast.before.m_stack.cells[Slot(k)]

\* top was called after the stack of initial capacity 2 had grown twice, and
\* returned the fifth element pushed, which differs from the fourth.
C25_Witness ==
    /\ stackLast.op = "top"
    /\ stack.N = 2
    /\ capacity = 8
    /\ pushed = <<"a", "b", "b", "a", "b">>
    /\ stackLast.value = "b"

\* N times a power of 2, up to the capacities reached.
IsInitialTimesPowerOfTwo(n) == \E k \in 0 .. MaxSize : n = stack.N * 2 ^ k

\* C30: the size never exceeds the capacity, and the capacity is N times a
\* power of 2.
C30_SizeWithinCapacity ==
    stack.N \in InitialCapacities =>
        /\ size <= capacity
        /\ IsInitialTimesPowerOfTwo(capacity)
        /\ Len(stack.m_stack.cells) = capacity
        /\ stackLast.op = "push" =>
              IF stackLast.before.m_count = stackLast.before.m_capacity
              THEN capacity = 2 * stackLast.before.m_capacity
              ELSE capacity = stackLast.before.m_capacity
        /\ stackLast.op \in {"pop", "top"} => capacity = stackLast.before.m_capacity

\* A push onto a full stack of initial capacity 3 doubled its capacity.
C30_Witness ==
    /\ stackLast.op = "push"
    /\ stack.N = 3
    /\ stackLast.before.m_count = 3
    /\ stackLast.before.m_capacity = 3
    /\ capacity = 6
    /\ size = 4

(* ====================================================================== *)
(* Bodies and fixtures of a World (src/PlayRho/Dynamics/World.hpp)        *)
(*                                                                        *)
(* The calls of World that take a BodyID or a FixtureID, as World.hpp     *)
(* documents them and as UnitTests/Body.cpp observes them, and the two    *)
(* queues of bodies and fixtures whose proxies the next Step processes.   *)
(* ====================================================================== *)

BodyTypes == {"Static", "Kinematic", "Dynamic"}

\* The velocities and accelerations given, 0 being the zero one.
Velocities == {0, 1}
Accelerations == {0, 1}

\* The time deltas of the StepConf given to Step.
TimeDeltas == {0, 1}

\* Kinematic and Dynamic bodies are speedable. Static bodies are not.
IsSpeedable(type) == type \in {"Kinematic", "Dynamic"}

\* Mutation of IsAccelerable: every body is accelerable.
AlwaysAccelerable(type) == TRUE

\* Only Dynamic bodies are accelerable.
IsAccelerable(type) == type = "Dynamic"

GetFixtures(id) == {f \in DOMAIN fixture : fixture[f] = id}

\* World::CreateBody: the body is enabled; a body that is not speedable is
\* not awake. Nothing is queued for a body without fixtures.
CreateBody(type) ==
    /\ bodyLast.op # "none"
    /\ BodyIDs \ DOMAIN body # {}
    /\ LET id == Lowest(BodyIDs \ DOMAIN body)
       IN /\ body' = [b \in DOMAIN body \cup {id} |->
                        IF b = id
                        THEN [type |-> type, awake |-> IsSpeedable(type), velocity |-> 0,
                              acceleration |-> 0, massDataDirty |-> FALSE]
                        ELSE body[b]]
          /\ bodyLast' = [op |-> "CreateBody", id |-> id]
    /\ UNCHANGED <<fixture, m_bodiesForProxies, m_fixturesForProxies, proxies>>
    /\ UNCHANGED outsideBody

\* Mutation of MassDataAfter: resetMassData is taken as given.
MassDataAlwaysReset(resetMassData) == FALSE

\* The mass-data-dirty flag after a fixture of positive density was attached
\* or removed: SetMassDataDirty(), then ResetMassData() if asked for.
MassDataAfter(resetMassData) == ~resetMassData

\* FixtureID CreateFixture(BodyID, const Shape&, const FixtureConf&, bool)
CreateFixture(id, resetMassData) ==
    /\ id \in DOMAIN body
    /\ FixtureIDs \ DOMAIN fixture # {}
    /\ LET f == Lowest(FixtureIDs \ DOMAIN fixture)
       IN /\ fixture' = [g \in DOMAIN fixture \cup {f} |-> IF g = f THEN id ELSE fixture[g]]
          /\ m_fixturesForProxies' = m_fixturesForProxies \cup {f}
          /\ bodyLast' = [op |-> "CreateFixture", id |-> id, fixture |-> f,
                          resetMassData |-> resetMassData]
    /\ body' = [body EXCEPT ![id].massDataDirty = MassDataAfter(resetMassData)]
    /\ UNCHANGED <<m_bodiesForProxies, proxies>>
    /\ UNCHANGED outsideBody

\* The fixtures without those removed.
Without(fixtures) == [g \in DOMAIN fixture \ fixtures |-> fixture[g]]

\* bool Destroy(FixtureID id, bool resetMassData)
DestroyFixture(f, resetMassData) ==
    /\ f \in DOMAIN fixture
    /\ fixture' = Without({f})
    /\ m_fixturesForProxies' = m_fixturesForProxies \ {f}
    /\ proxies' = proxies \ {f}
    /\ body' = [body EXCEPT ![fixture[f]].massDataDirty = MassDataAfter(resetMassData)]
    /\ bodyLast' = [op |-> "DestroyFixture", id |-> fixture[f], fixture |-> f,
                    resetMassData |-> resetMassData]
    /\ UNCHANGED m_bodiesForProxies
    /\ UNCHANGED outsideBody

\* void DestroyFixtures(BodyID id): every fixture of the body is destroyed
\* without resetting the mass data, and ResetMassData() is called after.
DestroyFixtures(id) ==
    /\ id \in DOMAIN body
    /\ fixture' = Without(GetFixtures(id))
    /\ m_fixturesForProxies' = m_fixturesForProxies \ GetFixtures(id)
    /\ proxies' = proxies \ GetFixtures(id)
    /\ body' = [body EXCEPT ![id].massDataDirty = FALSE]
    /\ bodyLast' = [op |-> "DestroyFixtures", id |-> id, before |-> body[id],
                    fixtures |-> GetFixtures(id)]
    /\ UNCHANGED m_bodiesForProxies
    /\ UNCHANGED outsideBody

\* void ResetMassData(BodyID id)
ResetMassData(id) ==
    /\ id \in DOMAIN body
    /\ body' = [body EXCEPT ![id].massDataDirty = FALSE]
    /\ bodyLast' = [op |-> "ResetMassData", id |-> id]
    /\ UNCHANGED <<fixture, m_bodiesForProxies, m_fixturesForProxies, proxies>>
    /\ UNCHANGED outsideBody

\* void SetVelocity(BodyID id, const Velocity& value): does nothing if the
\* body is not speedable; a non-zero velocity awakens the body.
SetVelocity(id, value) ==
    /\ id \in DOMAIN body
    /\ body' = IF ~IsSpeedable(body[id].type) THEN body
               ELSE [body EXCEPT ![id].velocity = value,
                                 ![id].awake = @ \/ value # 0]
    /\ bodyLast' = [op |-> "SetVelocity", id |-> id, before |-> body[id]]
    /\ UNCHANGED <<fixture, m_bodiesForProxies, m_fixturesForProxies, proxies>>
    /\ UNCHANGED outsideBody

\* The body after SetAcceleration: no effect on a non-accelerable body; a
\* non-zero acceleration awakens the body.
Accelerated(b, value) ==
    IF ~IsAccelerable(b.type) THEN b
    ELSE [b EXCEPT !.acceleration = value, !.awake = @ \/ value # 0]

\* void SetAcceleration(BodyID id, LinearAcceleration2, AngularAcceleration)
SetAcceleration(id, value) ==
    /\ id \in DOMAIN body
    /\ body' = [body EXCEPT ![id] = Accelerated(@, value)]
    /\ bodyLast' = [op |-> "SetAcceleration", id |-> id, before |-> body[id]]
    /\ UNCHANGED <<fixture, m_bodiesForProxies, m_fixturesForProxies, proxies>>
    /\ UNCHANGED outsideBody

\* ApplyLinearAcceleration(body, amount): SetAcceleration with the amount
\* added to the linear acceleration the body has.
ApplyLinearAcceleration(id, amount) ==
    /\ id \in DOMAIN body
    /\ body[id].acceleration + amount \in Accelerations
    /\ body' = [body EXCEPT ![id] = Accelerated(@, @.acceleration + amount)]
    /\ bodyLast' = [op |-> "ApplyLinearAcceleration", id |-> id, before |-> body[id]]
    /\ UNCHANGED <<fixture, m_bodiesForProxies, m_fixturesForProxies, proxies>>
    /\ UNCHANGED outsideBody

\* void SetTransformation(BodyID id, Transformation xfm): the body is queued
\* for the next Step to move its proxies. The transformation is left out.
SetTransformation(id) ==
    /\ id \in DOMAIN body
    /\ m_bodiesForProxies' = m_bodiesForProxies \cup {id}
    /\ bodyLast' = [op |-> "SetTransformation", id |-> id]
    /\ UNCHANGED <<body, fixture, m_fixturesForProxies, proxies>>
    /\ UNCHANGED outsideBody

\* void Destroy(BodyID id): the body and its fixtures are destroyed.
DestroyBody(id) ==
    /\ id \in DOMAIN body
    /\ body' = [b \in DOMAIN body \ {id} |-> body[b]]
    /\ fixture' = Without(GetFixtures(id))
    /\ m_bodiesForProxies' = m_bodiesForProxies \ {id}
    /\ m_fixturesForProxies' = m_fixturesForProxies \ GetFixtures(id)
    /\ proxies' = proxies \ GetFixtures(id)
    /\ bodyLast' = [op |-> "DestroyBody", id |-> id, fixtures |-> GetFixtures(id)]
    /\ UNCHANGED outsideBody

\* Mutation of ProcessesQueues: a Step of no time does nothing.
OnlyWithTimeDelta(dt) == dt # 0

\* Step processes the fixtures and bodies registered for proxy handling
\* whatever the time delta is.
ProcessesQueues(dt) == TRUE

\* StepStats Step(const StepConf& conf), as far as the two queues go: the
\* queued fixtures get their proxies, the proxies of the queued bodies are
\* moved, and the queues are emptied.
StepQueues(dt) ==
    /\ bodyLast.op # "none"
    /\ IF ProcessesQueues(dt)
       THEN /\ proxies' = proxies \cup m_fixturesForProxies
            /\ m_fixturesForProxies' = {}
            /\ m_bodiesForProxies' = {}
       ELSE UNCHANGED <<proxies, m_fixturesForProxies, m_bodiesForProxies>>
    /\ bodyLast' = [op |-> "Step", dt |-> dt,
                    queued |-> [bodies |-> m_bodiesForProxies,
                                fixtures |-> m_fixturesForProxies]]
    /\ UNCHANGED <<body, fixture>>
    /\ UNCHANGED outsideBody

\* World::World(): no body, no fixture, nothing queued.
BodyInit ==
    /\ EarlierIdle
    /\ StackIdle
    /\ TestIdle
    /\ body = << >>
    /\ fixture = << >>
    /\ m_bodiesForProxies = {}
    /\ m_fixturesForProxies = {}
    /\ proxies = {}
    /\ bodyLast = [op |-> "World"]

\* The calls that set bodies in motion.
BodyNext ==
    \/ \E type \in BodyTypes : CreateBody(type)
    \/ \E id \in BodyIDs, value \in Velocities : SetVelocity(id, value)
    \/ \E id \in BodyIDs, value \in Accelerations : SetAcceleration(id, value)
    \/ \E id \in BodyIDs, amount \in Accelerations : ApplyLinearAcceleration(id, amount)
    \/ \E id \in BodyIDs : DestroyBody(id)

BodySpec == BodyInit /\ [][BodyNext]_vars

\* The calls that attach and remove fixtures, queue bodies and fixtures for
\* proxy processing, and step the world.
FixtureNext ==
    \/ \E type \in BodyTypes : CreateBody(type)
    \/ \E id \in BodyIDs, resetMassData \in BOOLEAN : CreateFixture(id, resetMassData)
    \/ \E f \in FixtureIDs, resetMassData \in BOOLEAN : DestroyFixture(f, resetMassData)
    \/ \E id \in BodyIDs : DestroyFixtures(id)
    \/ \E id \in BodyIDs : ResetMassData(id)
    \/ \E id \in BodyIDs : SetTransformation(id)
    \/ \E id \in BodyIDs : DestroyBody(id)
    \/ \E dt \in TimeDeltas : StepQueues(dt)

FixtureSpec == BodyInit /\ [][FixtureNext]_vars

IsMassDataDirty(id) == body[id].massDataDirty

C23_StaticStaysAtRest ==
    /\ \A id \in DOMAIN body :
          /\ ~IsSpeedable(body[id].type) => body[id].velocity = 0 /\ ~body[id].awake
          /\ ~IsAccelerable(body[id].type) => body[id].acceleration = 0
    /\ (bodyLast.op = "SetVelocity" /\ ~IsSpeedable(bodyLast.before.type))
          => body[bodyLast.id] = bodyLast.before
    /\ (bodyLast.op \in {"SetAcceleration", "ApplyLinearAcceleration"}
            /\ ~IsAccelerable(bodyLast.before.type))
          => body[bodyLast.id].acceleration = 0

\* ApplyLinearAcceleration was called on a static body while the other
\* body, a dynamic one, had a velocity and an acceleration set.
C23_Witness ==
    /\ bodyLast.op = "ApplyLinearAcceleration"
    /\ body[bodyLast.id].type = "Static"
    /\ DOMAIN body = {1, 2}
    /\ body[3 - bodyLast.id].type = "Dynamic"
    /\ body[3 - bodyLast.id].velocity = 1
    /\ body[3 - bodyLast.id].acceleration = 1

\* C26: when Step has returned both queues are empty, whatever the time
\* delta; after Destroy(BodyID) no fixture of that body is in the
\* fixtures-for-proxies queue; the queues hold existing bodies and fixtures.
C26_QueuesEmptied ==
    /\ bodyLast.op = "Step" =>
          m_bodiesForProxies = {} /\ m_fixturesForProxies = {}
    /\ bodyLast.op = "DestroyBody" =>
          m_fixturesForProxies \cap bodyLast.fixtures = {}
    /\ m_bodiesForProxies \subseteq DOMAIN body
    /\ m_fixturesForProxies \subseteq DOMAIN fixture

\* Step with a zero time delta returned after a body and two fixtures had
\* been queued.
C26_Witness ==
    /\ bodyLast.op = "Step"
    /\ bodyLast.dt = 0
    /\ bodyLast.queued.bodies # {}
    /\ bodyLast.queued.fixtures = {1, 2}
    /\ m_bodiesForProxies = {}
    /\ m_fixturesForProxies = {}
    /\ proxies = {1, 2}

(* ====================================================================== *)
(* Test (src/Box2D/Testbed/Framework/Test.cpp)                            *)
(*                                                                        *)
(* The mouse and bomb handlers of the testbed. The Test holds pointers    *)
(* into its world: m_mouseJoint to the joint that drags a body, m_bomb to *)
(* the bomb. The world tells the Test's destruction listener of every     *)
(* joint it destroys along with a body.                                   *)
(* ====================================================================== *)

nullptr == 0

\* The addresses the world gives to the bodies and joints it creates.
Bodies == {1, 2, 3, 4}
Joints == {1, 2}

\* The points the handlers are given.
Points == {1, 2}

\* Mutation of SayGoodbye: the listener leaves the pointer.
SayNothing(mouseJoint, created) == mouseJoint

\* DestructionListenerImpl::SayGoodbye(Joint& joint): the m_mouseJoint of
\* the test after it. JointDestroyed does nothing in Test.
SayGoodbye(mouseJoint, created) == IF mouseJoint = created THEN nullptr ELSE mouseJoint

\* The joints of the world attached to a body.
JointsOf(world, b) ==
    {j \in DOMAIN world.joints : world.joints[j].bodyA = b \/ world.joints[j].bodyB = b}

\* m_mouseJoint after the listener was told of each of the joints.
RECURSIVE Notified(_, _)
Notified(mouseJoint, joints) ==
    IF joints = {} THEN mouseJoint
    ELSE LET created == CHOOSE j \in joints : TRUE
         IN Notified(SayGoodbye(mouseJoint, created), joints \ {created})

\* World::Destroy(Body*): the joints attached to the body are destroyed
\* with it.
WithoutBody(world, b) ==
    [bodies |-> [c \in DOMAIN world.bodies \ {b} |-> world.bodies[c]],
     joints |-> [j \in DOMAIN world.joints \ JointsOf(world, b) |-> world.joints[j]]]

\* World::Destroy(Joint*)
WithoutJoint(world, created) ==
    [world EXCEPT !.joints = [j \in DOMAIN world.joints \ {created} |-> world.joints[j]]]

\* World::CreateJoint: the addresses it may return, nullptr when the world
\* cannot hold another joint.
CreatedJoints(world) ==
    IF Joints \ DOMAIN world.joints = {} THEN {nullptr} ELSE Joints \ DOMAIN world.joints

WithJoint(world, created, def) ==
    IF created = nullptr THEN world
    ELSE [world EXCEPT !.joints = [j \in DOMAIN world.joints \cup {created} |->
                                     IF j = created THEN def ELSE world.joints[j]]]

\* void Test::MouseDown(const Vec2& p). The query finds the fixture of one
\* of the dynamic bodies of the world, or none.
MouseDown(p) ==
    /\ m_groundBody # nullptr
    /\ m_mouseWorld' = p
    /\ IF m_mouseJoint # nullptr
       THEN /\ UNCHANGED <<m_world, m_mouseJoint>>
            /\ testLast' = [op |-> "MouseDown", before |-> m_mouseJoint, found |-> nullptr]
       ELSE \E bodyB \in {b \in DOMAIN m_world.bodies : m_world.bodies[b] = "Dynamic"}
                           \cup {nullptr} :
              IF bodyB = nullptr
              THEN /\ UNCHANGED <<m_world, m_mouseJoint>>
                   /\ testLast' = [op |-> "MouseDown", before |-> m_mouseJoint,
                                   found |-> nullptr]
              ELSE \E created \in CreatedJoints(m_world) :
                     /\ m_world' = WithJoint(m_world, created,
                                             [type |-> "Mouse", bodyA |-> m_groundBody,
                                              bodyB |-> bodyB, target |-> p])
                     /\ m_mouseJoint' = created
                     /\ testLast' = [op |-> "MouseDown", before |-> m_mouseJoint,
                                     found |-> bodyB]
    /\ UNCHANGED <<m_groundBody, m_bomb, m_bombSpawning, m_bombSpawnPoint>>
    /\ UNCHANGED outsideTest

\* void Test::ShiftMouseDown(const Vec2& p), with SpawnBomb.
ShiftMouseDown(p) ==
    /\ m_groundBody # nullptr
    /\ m_mouseWorld' = p
    /\ IF m_mouseJoint # nullptr
       THEN UNCHANGED <<m_bombSpawnPoint, m_bombSpawning>>
       ELSE /\ m_bombSpawnPoint' = p
            /\ m_bombSpawning' = TRUE
    /\ testLast' = [op |-> "ShiftMouseDown", before |-> m_mouseJoint]
    /\ UNCHANGED <<m_world, m_groundBody, m_mouseJoint, m_bomb>>
    /\ UNCHANGED outsideTest

\* void Test::LaunchBomb(const Vec2& position, const Vec2& linearVelocity):
\* the world, the mouse joint and the bomb after it, for the address the
\* world gives to the new bomb.
Launched(world, mouseJoint, bomb, created) ==
    LET destroyed == IF bomb # nullptr THEN WithoutBody(world, bomb) ELSE world
    IN [world |-> [destroyed EXCEPT !.bodies =
                      [b \in DOMAIN destroyed.bodies \cup {created} |->
                          IF b = created THEN "Dynamic" ELSE destroyed.bodies[b]]],
        mouseJoint |-> IF bomb # nullptr
                       THEN Notified(mouseJoint, JointsOf(world, bomb))
                       ELSE mouseJoint,
        bomb |-> created]

\* The addresses the world may give to a new body once bomb is destroyed.
CreatedBodies(world, bomb) == Bodies \ (DOMAIN world.bodies \ {bomb})

\* void Test::MouseUp(const Vec2& p), with CompleteBombSpawn.
MouseUp(p) ==
    /\ m_groundBody # nullptr
    /\ LET world == IF m_mouseJoint # nullptr THEN WithoutJoint(m_world, m_mouseJoint)
                    ELSE m_world
       IN IF m_bombSpawning
          THEN \E created \in CreatedBodies(world, m_bomb) :
                 LET launched == Launched(world, nullptr, m_bomb, created)
                 IN /\ m_world' = launched.world
                    /\ m_mouseJoint' = launched.mouseJoint
                    /\ m_bomb' = launched.bomb
          ELSE /\ m_world' = world
               /\ m_mouseJoint' = nullptr
               /\ UNCHANGED m_bomb
    /\ m_bombSpawning' = FALSE
    /\ testLast' = [op |-> "MouseUp", before |-> m_mouseJoint]
    /\ UNCHANGED <<m_groundBody, m_mouseWorld, m_bombSpawnPoint>>
    /\ UNCHANGED outsideTest

\* void Test::MouseMove(const Vec2& p)
MouseMove(p) ==
    /\ m_groundBody # nullptr
    /\ m_mouseWorld' = p
    /\ m_world' = IF m_mouseJoint # nullptr
                  THEN [m_world EXCEPT !.joints[m_mouseJoint].target = p]
                  ELSE m_world
    /\ testLast' = [op |-> "MouseMove", before |-> m_mouseJoint]
    /\ UNCHANGED <<m_groundBody, m_mouseJoint, m_bomb, m_bombSpawning, m_bombSpawnPoint>>
    /\ UNCHANGED outsideTest

\* void Test::LaunchBomb()
LaunchBomb ==
    /\ m_groundBody # nullptr
    /\ \E created \in CreatedBodies(m_world, m_bomb) :
         LET launched == Launched(m_world, m_mouseJoint, m_bomb, created)
         IN /\ m_world' = launched.world
            /\ m_mouseJoint' = launched.mouseJoint
            /\ m_bomb' = launched.bomb
    /\ testLast' = [op |-> "LaunchBomb", before |-> m_mouseJoint,
                    told |-> IF m_bomb # nullptr THEN JointsOf(m_world, m_bomb) ELSE {}]
    /\ UNCHANGED <<m_groundBody, m_mouseWorld, m_bombSpawning, m_bombSpawnPoint>>
    /\ UNCHANGED outsideTest

\* The world destroys a dynamic body other than the bomb, as a test derived
\* from Test asks it to, and tells the listener of the joints it destroys.
DestroyDynamicBody(b) ==
    /\ b \in DOMAIN m_world.bodies
    /\ b # m_groundBody
    /\ b # m_bomb
    /\ m_world' = WithoutBody(m_world, b)
    /\ m_mouseJoint' = Notified(m_mouseJoint, JointsOf(m_world, b))
    /\ testLast' = [op |-> "SayGoodbye", before |-> m_mouseJoint,
                    told |-> JointsOf(m_world, b)]
    /\ UNCHANGED <<m_groundBody, m_mouseWorld, m_bomb, m_bombSpawning, m_bombSpawnPoint>>
    /\ UNCHANGED outsideTest

\* Test::Test(const World::Def&), and a derived test that made a dynamic
\* body and may have joined it to the ground.
TestInit ==
    /\ EarlierIdle
    /\ StackIdle
    /\ BodyIdle
    /\ m_groundBody = 1
    /\ \E joints \in {<< >>, <<[type |-> "Revolute", bodyA |-> 1, bodyB |-> 2, target |-> 0]>>} :
          m_world = [bodies |-> <<"Static", "Dynamic">>, joints |-> joints]
    /\ m_mouseJoint = nullptr
    /\ m_mouseWorld = 0
    /\ m_bomb = nullptr
    /\ m_bombSpawning = FALSE
    /\ m_bombSpawnPoint = 0
    /\ testLast = [op |-> "Test"]

TestNext ==
    \/ \E p \in Points : MouseDown(p)
    \/ \E p \in Points : ShiftMouseDown(p)
    \/ \E p \in Points : MouseUp(p)
    \/ \E p \in Points : MouseMove(p)
    \/ LaunchBomb
    \/ \E b \in Bodies : DestroyDynamicBody(b)

TestSpec == TestInit /\ [][TestNext]_vars

MouseJoints == {j \in DOMAIN m_world.joints : m_world.joints[j].type = "Mouse"}

\* C29: at most one mouse joint exists, and m_mouseJoint is null or a joint
\* of the world; a MouseDown that met a mouse joint kept it, a MouseUp left
\* no mouse joint and a null pointer, and the pointer is null after the
\* world destroyed the joint it pointed to and said goodbye to it.
C29_OneMouseJoint ==
    /\ Cardinality(MouseJoints) <= 1
    /\ m_mouseJoint = nullptr \/ m_mouseJoint \in MouseJoints
    /\ (testLast.op = "MouseDown" /\ testLast.before # nullptr)
          => m_mouseJoint = testLast.before
    /\ testLast.op = "MouseUp" => m_mouseJoint = nullptr /\ MouseJoints = {}
    /\ (testLast.op \in {"SayGoodbye", "LaunchBomb"} /\ testLast.before \in testLast.told)
          => m_mouseJoint = nullptr

\* LaunchBomb destroyed the bomb while the mouse joint dragged it, and the
\* joint along with it, and made a new bomb.
C29_Witness ==
    /\ testLast.op = "LaunchBomb"
    /\ testLast.before # nullptr
    /\ testLast.before \in testLast.told
    /\ m_mouseJoint = nullptr
    /\ m_bomb # nullptr
    /\ MouseJoints = {}

============================================================================
